---- MODULE Spec2Model ----
(***************************************************************************)
(* Model of opencode-mystatus: the formatting primitives of                *)
(* plugin/lib/utils.ts, the provider adapters (openai.ts, minimax.ts,      *)
(* anthropic.ts) and the aggregator of plugin/mystatus.ts.                 *)
(*                                                                         *)
(* A JavaScript string is a sequence of atoms.  An atom is a one-character *)
(* string, or a fixed label of the translation table kept whole; Len(atom) *)
(* is its length in characters.  Secrets (API key, access token) are       *)
(* always sequences of one-character atoms, so slicing them is exact.      *)
(* A JavaScript number that may be fractional is a pair <<n, d>>, d > 0,   *)
(* standing for n/d; integers are plain integers.                          *)
(***************************************************************************)
EXTENDS Integers, Sequences, FiniteSets, TLC

VARIABLES
    currentLang,  \* i18n.ts: language detected once at module load
    now,          \* the wall clock, epoch milliseconds
    call,         \* function-level runs: the function applied and its arguments
    ret,          \* function-level runs: what the function returned
    authFile,     \* the credential store: what reading auth.json gives
    authData,     \* execute: the parsed credential store, once read
    pc,           \* execute: where the invocation of the tool stands
    queries,      \* execute: the keys of the query tasks, in the order pushed
    task,         \* per provider: the state of its adapter call and its result
    output,       \* execute: the string returned to the host
    events,       \* the adapter calls and the requests issued, in order
    upstream      \* per provider: what its usage request met

toolVars == <<authFile, authData, pc, queries, task, output, events, upstream>>

vars == <<currentLang, now, call, ret, toolVars>>

-----------------------------------------------------------------------------
(* Bounds of the model *)

MaxLen == 5         \* longest string handed to maskString
MaxShow == 2        \* largest showChars handed to maskString
MaxWidth == 4       \* widest progress bar besides the default width
MaxHalfPercent == 210   \* progress bar inputs run to MaxHalfPercent / 2 percent
MaxUsedHalves == 200    \* reported usage runs to MaxUsedHalves / 2 percent
MaxTotal == 8       \* largest MiniMax interval total besides the sampled ones
MaxDrift == 1       \* milliseconds the clock may advance within a run
StartTime == 1000   \* the clock when the run begins
MaxSeconds == 130   \* durations run to MaxSeconds seconds past a whole hour

-----------------------------------------------------------------------------
(* Generic helpers: sequences of atoms, numbers *)

Min(a, b) == IF a <= b THEN a ELSE b
Max(a, b) == IF a >= b THEN a ELSE b

Repeat(c, k) == [i \in 1..k |-> c]

RECURSIVE TextLen(_)
TextLen(s) == IF s = <<>> THEN 0 ELSE Len(Head(s)) + TextLen(Tail(s))

RECURSIVE Join(_, _)
Join(parts, sep) ==
    IF parts = <<>> THEN <<>>
    ELSE IF Len(parts) = 1 THEN parts[1]
    ELSE parts[1] \o sep \o Join(Tail(parts), sep)

Digits == <<"0", "1", "2", "3", "4", "5", "6", "7", "8", "9">>

RECURSIVE NatText(_)
NatText(n) ==
    IF n < 10 THEN <<Digits[n + 1]>>
    ELSE NatText(n \div 10) \o <<Digits[(n % 10) + 1]>>

IntText(i) == IF i < 0 THEN <<"-">> \o NatText(-i) ELSE NatText(i)

\* Number.prototype.toString of n/d, for the denominators whose decimal
\* expansion ends after one digit (d divides 10)
NumText(q) ==
    LET tenths == (q[1] * 10) \div q[2]
        mag == IF tenths < 0 THEN -tenths ELSE tenths
        sign == IF tenths < 0 THEN <<"-">> ELSE <<>>
    IN  IF mag % 10 = 0 THEN sign \o NatText(mag \div 10)
        ELSE sign \o NatText(mag \div 10) \o <<".">> \o NatText(mag % 10)

\* Math.round: the nearest integer, a tie going up, floor(x + 1/2)
MathRound(q) == (2 * q[1] + q[2]) \div (2 * q[2])

\* Math.floor
MathFloor(q) == q[1] \div q[2]

QLe(a, b) == a[1] * b[2] <= b[1] * a[2]
QLt(a, b) == a[1] * b[2] < b[1] * a[2]
QEq(a, b) == a[1] * b[2] = b[1] * a[2]
QMin(a, b) == IF QLe(a, b) THEN a ELSE b
QMax(a, b) == IF QLe(b, a) THEN a ELSE b
QInt(i) == <<i, 1>>

\* String.prototype.slice index clamping: a negative index counts from the end
SliceIndex(len, i) == IF i < 0 THEN Max(len + i, 0) ELSE Min(i, len)

\* String.prototype.slice(start, end) on a string of one-character atoms
slice(str, start, end) ==
    LET a == SliceIndex(Len(str), start)
        b == SliceIndex(Len(str), end)
    IN  IF a < b THEN SubSeq(str, a + 1, b) ELSE <<>>

\* String.prototype.slice(start): to the end of the string
sliceFrom(str, start) == slice(str, start, Len(str))

\* String.prototype.padStart(2, "0") of a decimal number
Pad2(n) == IF n < 10 THEN <<"0">> \o NatText(n) ELSE NatText(n)

-----------------------------------------------------------------------------
(* i18n.ts: the translation table *)

Languages == {"en", "vi"}

days(n) == NatText(n) \o (IF currentLang = "en" THEN <<"d">> ELSE <<"ngay">>)
hours(n) == NatText(n) \o (IF currentLang = "en" THEN <<"h">> ELSE <<"gio">>)
minutes(n) == NatText(n) \o (IF currentLang = "en" THEN <<"m">> ELSE <<"phut">>)

\* The labels of the table without parameters, per language.  The emoji of
\* the source that the parser does not read are written in ASCII: "(x)" is
\* the cross mark.  Vietnamese letters are written without their
\* diacritics (one letter stays one character, so lengths are unchanged).
translations ==
    [en |-> [account |-> <<"Account:">>,
             unknown |-> <<"unknown">>,
             used |-> <<"Used">>,
             limitReached |-> <<"⚠ Rate limit reached!">>,
             tokenExpired |-> <<"⚠ OAuth token expired. Please use an OpenAI model in OpenCode to refresh authorization.">>,
             noAccounts |-> <<"No configured accounts found.\n\nSupported account types:\n- OpenAI (Plus/Team/Pro subscribers)\n- MiniMax (Coding Plan)\n- Anthropic (Claude API)\n- GitHub Copilot">>,
             queryFailed |-> <<"(x) Failed to query accounts:", "\n">>,
             noQuotaData |-> <<"No quota data available">>,
             openaiTitle |-> <<"## OpenAI Account Quota">>,
             minimaxTitle |-> <<"## MiniMax Account Quota">>,
             minimaxPromptLimit |-> <<"5-hour prompt limit">>,
             minimaxNeedLogin |-> <<"⚠ MiniMax session expired or not logged in.\nBrowser will open automatically for you to login.\nAfter login, close the browser and session will be saved automatically.">>,
             anthropicTitle |-> <<"## Anthropic Account Quota">>,
             anthropic5HourUsage |-> <<"5-hour window (Session)">>,
             anthropic7DayUsage |-> <<"7-day window (Weekly)">>,
             copilotTitle |-> <<"## GitHub Copilot Account Quota">>,
             copilotQuotaUnavailable |-> <<"⚠ GitHub Copilot quota query unavailable.\nOpenCode's new OAuth integration doesn't support quota API access.">>,
             tableTitle |-> <<"## AI Provider Quota Status">>,
             tableHeader |-> [provider |-> <<"Provider">>,
                              account |-> <<"Account">>,
                              plan |-> <<"Plan">>,
                              used |-> <<"Used">>,
                              remaining |-> <<"Remaining">>,
                              resetIn |-> <<"Reset In">>,
                              resetDate |-> <<"Reset Date">>]],
     vi |-> [account |-> <<"Tai khoan:">>,
             unknown |-> <<"Khong xac dinh">>,
             used |-> <<"Da dung">>,
             limitReached |-> <<"⚠ Da dat Gioi han!">>,
             tokenExpired |-> <<"⚠ Token OAuth da het han. Vui long su dung mot mo hinh OpenAI trong OpenCode de lam moi quyen truy cap.">>,
             noAccounts |-> <<"Khong tim thay tai khoan nao da cau hinh.\n\nCac loai tai khoan duoc ho tro:\n- OpenAI (Plus/Team/Pro)\n- MiniMax (Coding Plan)\n- Anthropic (Claude API)\n- GitHub Copilot">>,
             queryFailed |-> <<"(x) Cac tai khoan truy van that bai:", "\n">>,
             noQuotaData |-> <<"Khong co du lieu han muc">>,
             openaiTitle |-> <<"## Han muc tai khoan OpenAI">>,
             minimaxTitle |-> <<"## Han muc tai khoan MiniMax">>,
             minimaxPromptLimit |-> <<"Gioi han prompt 5 gio">>,
             minimaxNeedLogin |-> <<"⚠ Session MiniMax da het han hoac chua dang nhap.\nTrinh duyet se tu dong mo de ban dang nhap.\nSau khi dang nhap, dong trinh duyet va session se duoc luu tu dong.">>,
             anthropicTitle |-> <<"## Han muc tai khoan Anthropic">>,
             anthropic5HourUsage |-> <<"Cua so 5 gio (Session)">>,
             anthropic7DayUsage |-> <<"Cua so 7 ngay (Weekly)">>,
             copilotTitle |-> <<"## Han muc tai khoan GitHub Copilot">>,
             copilotQuotaUnavailable |-> <<"⚠ Truy van han muc GitHub Copilot khong kha dung.\nTich hop OAuth moi cua OpenCode khong ho tro truy cap API han muc.">>,
             tableTitle |-> <<"## Trang thai han muc nha cung cap AI">>,
             tableHeader |-> [provider |-> <<"Nha cung cap">>,
                              account |-> <<"Tai khoan">>,
                              plan |-> <<"Goi">>,
                              used |-> <<"Da dung">>,
                              remaining |-> <<"Con lai">>,
                              resetIn |-> <<"Thoi gian reset">>,
                              resetDate |-> <<"Ngay reset">>]]]

t == translations[currentLang]

hourLimit(h) ==
    IF currentLang = "en" THEN IntText(h) \o <<"-hour limit">>
    ELSE <<"Gioi han ">> \o IntText(h) \o <<" gio">>

dayLimit(d) ==
    IF currentLang = "en" THEN IntText(d) \o <<"-day limit">>
    ELSE <<"Gioi han ">> \o IntText(d) \o <<" ngay">>

remaining(p) ==
    IF currentLang = "en" THEN IntText(p) \o <<"%", " remaining">>
    ELSE <<"Con lai ">> \o IntText(p) \o <<"%">>

resetIn(txt) == txt

apiError(status, text) ==
    IF currentLang = "en"
    THEN <<"OpenAI API request failed (">> \o IntText(status) \o <<"): ">> \o text
    ELSE <<"Yeu cau OpenAI API that bai (">> \o IntText(status) \o <<"): ">> \o text

timeoutError(seconds) ==
    IF currentLang = "en"
    THEN <<"Request timeout (">> \o IntText(seconds) \o <<"s)">>
    ELSE <<"Het thoi gian cho (">> \o IntText(seconds) \o <<" giay)">>

minimaxApiError(status, text) ==
    IF currentLang = "en"
    THEN <<"MiniMax API request failed (">> \o IntText(status) \o <<"): ">> \o text
    ELSE <<"Yeu cau MiniMax API that bai (">> \o IntText(status) \o <<"): ">> \o text

\* An auth error that leaves out the cause, to show that C16 depends on the
\* message of the error being part of the string
authErrorNoCause(path, err) ==
    IF currentLang = "en"
    THEN <<"(x) Failed to read auth file: ">> \o path \o <<"\n", "Error: ">>
    ELSE <<"(x) Khong doc duoc file auth: ">> \o path \o <<"\n", "Loi: ">>

authError(path, err) ==
    IF currentLang = "en"
    THEN <<"(x) Failed to read auth file: ">> \o path \o <<"\n", "Error: ">> \o err
    ELSE <<"(x) Khong doc duoc file auth: ">> \o path \o <<"\n", "Loi: ">> \o err

-----------------------------------------------------------------------------
(* utils.ts *)

\* A duration without the zero-minutes fallback of line 26, to show that C12
\* depends on it
formatDurationNoFallback(seconds) ==
    LET d == seconds \div 86400
        h == (seconds % 86400) \div 3600
        m == (seconds % 3600) \div 60
        p1 == IF d > 0 THEN <<days(d)>> ELSE <<>>
        p2 == IF h > 0 THEN p1 \o <<hours(h)>> ELSE p1
        parts == IF m > 0 THEN p2 \o <<minutes(m)>> ELSE p2
    IN  Join(parts, IF currentLang = "en" THEN <<" ">> ELSE <<>>)

formatDuration(seconds) ==
    LET d == seconds \div 86400
        h == (seconds % 86400) \div 3600
        m == (seconds % 3600) \div 60
        p1 == IF d > 0 THEN <<days(d)>> ELSE <<>>
        p2 == IF h > 0 THEN p1 \o <<hours(h)>> ELSE p1
        parts == IF m > 0 \/ Len(p2) = 0 THEN p2 \o <<minutes(m)>> ELSE p2
    IN  Join(parts, IF currentLang = "en" THEN <<" ">> ELSE <<>>)

\* Date getters of the reset instant.  The model's instants lie in January
\* 1970 and the local time zone is UTC.
getHours(ts) == (ts \div 3600000) % 24
getMinutes(ts) == (ts \div 60000) % 60
getSeconds(ts) == (ts \div 1000) % 60
getDate(ts) == (ts \div 86400000) + 1
getMonth(ts) == 0
getFullYear(ts) == 1970

ResetsNow == <<"Resets now">>

\* A reset time that takes an instant equal to the clock as still ahead, to
\* show that C11 depends on the test diffMs <= 0
formatResetTimeStrict(resetTimestamp, dateOnly, clock) ==
    LET diffMs == resetTimestamp - clock
        diffSeconds == diffMs \div 1000
        day == Pad2(getDate(resetTimestamp))
        month == Pad2(getMonth(resetTimestamp) + 1)
        year == NatText(getFullYear(resetTimestamp))
        hh == Pad2(getHours(resetTimestamp))
        mm == Pad2(getMinutes(resetTimestamp))
        ss == Pad2(getSeconds(resetTimestamp))
        exactTime == <<"at", " ">> \o hh \o <<":">> \o mm \o <<":">> \o ss
                     \o <<" ">> \o day \o <<"/">> \o month \o <<"/">> \o year
        relativeTime == formatDuration(diffSeconds)
    IN  IF diffMs < 0 THEN ResetsNow
        ELSE IF dateOnly
             THEN hh \o <<":">> \o mm \o <<" ", "-", " ">>
                  \o day \o <<"/">> \o month \o <<"/">> \o year
             ELSE <<"Resets in:", " ">> \o relativeTime
                  \o <<" ", "(">> \o exactTime \o <<")">>

\* clock is the value Date.now() returns at the function's first line
formatResetTime(resetTimestamp, dateOnly, clock) ==
    LET diffMs == resetTimestamp - clock
        diffSeconds == diffMs \div 1000
        day == Pad2(getDate(resetTimestamp))
        month == Pad2(getMonth(resetTimestamp) + 1)
        year == NatText(getFullYear(resetTimestamp))
        hh == Pad2(getHours(resetTimestamp))
        mm == Pad2(getMinutes(resetTimestamp))
        ss == Pad2(getSeconds(resetTimestamp))
        exactTime == <<"at", " ">> \o hh \o <<":">> \o mm \o <<":">> \o ss
                     \o <<" ">> \o day \o <<"/">> \o month \o <<"/">> \o year
        relativeTime == formatDuration(diffSeconds)
    IN  IF diffMs <= 0 THEN ResetsNow
        ELSE IF dateOnly
             THEN hh \o <<":">> \o mm \o <<" ", "-", " ">>
                  \o day \o <<"/">> \o month \o <<"/">> \o year
             ELSE <<"Resets in:", " ">> \o relativeTime
                  \o <<" ", "(">> \o exactTime \o <<")">>

\* createProgressBar: the default of its width parameter
DefaultBarWidth == 30

FilledChar == "█"
EmptyChar == "░"

\* A progress bar without the clamp of line 82, to show that C10 depends on it
createProgressBarUnclamped(remainPercent, width) ==
    LET filled == MathRound(<<remainPercent[1] * width, remainPercent[2] * 100>>)
    IN  Repeat(FilledChar, filled) \o Repeat(EmptyChar, width - filled)

createProgressBar(remainPercent, width) ==
    LET safePercent == QMax(QInt(0), QMin(QInt(100), remainPercent))
        filled == MathRound(<<safePercent[1] * width, safePercent[2] * 100>>)
        empty == width - filled
    IN  Repeat(FilledChar, filled) \o Repeat(EmptyChar, empty)

\* A remainder rounded down instead of to the nearest integer, to show that
\* C7 depends on the rounding
calcRemainPercentFloor(usedPercent) ==
    MathFloor(<<100 * usedPercent[2] - usedPercent[1], usedPercent[2]>>)

calcRemainPercent(usedPercent) ==
    MathRound(<<100 * usedPercent[2] - usedPercent[1], usedPercent[2]>>)

\* fetchWithTimeout.  The timer set at line 128 is "armed" until it fires
\* ("fired") or is disarmed ("cleared"); an error is its name and its message.

\* A function that never disarms its timer, to show that C22 depends on the
\* finally block of lines 141-143
clearTimeoutMissing(timer) == timer

\* clearTimeout(timeoutId): disarms a timer that has not fired yet
clearTimeout(timer) == IF timer = "armed" THEN "cleared" ELSE timer

\* What fetch rejects with once controller.abort() was called
AbortError == [name |-> "AbortError", message |-> <<"This operation was aborted">>]

\* The catch block of lines 136-141: what is thrown on for what fetch threw
fetchWithTimeoutCatch(err, timeoutMs) ==
    IF err.name = "AbortError"
    THEN [name |-> "Error", message |-> timeoutError(MathRound(<<timeoutMs, 1000>>))]
    ELSE err

Stars == <<"*", "*", "*", "*">>

maskString(str, showChars) ==
    IF Len(str) <= showChars * 2 THEN str
    ELSE slice(str, 0, showChars) \o Stars \o sliceFrom(str, -showChars)

-----------------------------------------------------------------------------
(* types.ts (its text is kept in README.md).  An optional value is <<>>     *)
(* when absent (undefined or null) and                                      *)
(* <<v>> when present; an absent string is the empty string <<>>.           *)

HIGH_USAGE_THRESHOLD == 80
REQUEST_TIMEOUT_MS == 10000

\* QueryResult
Success(text, rows) ==
    [success |-> TRUE, output |-> text, tableRows |-> rows, error |-> <<>>]
Failure(error) ==
    [success |-> FALSE, output |-> <<>>, tableRows |-> <<>>, error |-> error]

\* An exception that leaves an async function: its promise is rejected
Rejection(reason) == [rejected |-> reason]
IsRejection(r) == DOMAIN r = {"rejected"}

-----------------------------------------------------------------------------
(* openai.ts *)

\* A naming that never uses days, to show that C25 depends on the day rule
formatWindowNameHours(seconds) == hourLimit(MathRound(<<seconds, 3600>>))

formatWindowName(seconds) ==
    LET d == MathRound(<<seconds, 86400>>)
    IN  IF d >= 1 THEN dayLimit(d)
        ELSE hourLimit(MathRound(<<seconds, 3600>>))

\* The three lines of one window
formatWindow(window) ==
    LET windowName == formatWindowName(window.limit_window_seconds)
        remainPercent == calcRemainPercent(window.used_percent)
        progressBar == createProgressBar(QInt(remainPercent), DefaultBarWidth)
        resetTime == formatDuration(window.reset_after_seconds)
    IN  << windowName,
           progressBar \o <<" ">> \o remaining(remainPercent),
           resetIn(resetTime) >>

\* rate_limit?.primary_window, rate_limit?.secondary_window, rate_limit?.limit_reached
primaryOf(data) ==
    IF data.rate_limit = <<>> THEN <<>> ELSE data.rate_limit[1].primary_window
secondaryOf(data) ==
    IF data.rate_limit = <<>> THEN <<>> ELSE data.rate_limit[1].secondary_window
limitReachedOf(data) ==
    IF data.rate_limit = <<>> THEN FALSE ELSE data.rate_limit[1].limit_reached

formatOpenAIUsage(data, email) ==
    LET accountDisplay == IF email # <<>> THEN email ELSE t.unknown
        l0 == << t.account \o <<"        ">> \o accountDisplay
                 \o <<" ", "(">> \o data.plan_type \o <<")">>,
                 <<>> >>
        l1 == IF primaryOf(data) # <<>>
              THEN l0 \o formatWindow(primaryOf(data)[1]) ELSE l0
        l2 == IF secondaryOf(data) # <<>>
              THEN l1 \o << <<>> >> \o formatWindow(secondaryOf(data)[1]) ELSE l1
        lines == IF limitReachedOf(data)
                 THEN l2 \o << <<>>, t.limitReached >> ELSE l2
    IN  Join(lines, <<"\n">>)

\* reads[1] is Date.now() of line 217, reads[2] the one inside formatResetTime.
\* The result is the optional row: <<>> for undefined.
extractTableRowOpenAI(data, email, reads) ==
    LET primary == primaryOf(data)
    IN  IF primary = <<>> THEN <<>>
        ELSE
        LET usedPercent == primary[1].used_percent
            remainPercent == calcRemainPercent(usedPercent)
            resetAfter == primary[1].reset_after_seconds
            nowMs == reads[1]
            resetDate == IF resetAfter > 0 THEN <<nowMs + resetAfter * 1000>> ELSE <<>>
            resetDateStr == IF resetDate # <<>> /\ resetDate[1] > nowMs
                            THEN formatResetTime(resetDate[1], TRUE, reads[2])
                            ELSE <<"-">>
            resetInStr == IF resetAfter > 0 THEN formatDuration(resetAfter) ELSE <<"-">>
        IN  << [provider |-> <<"OpenAI">>,
                account |-> IF email # <<>> THEN email ELSE t.unknown,
                plan |-> data.plan_type,
                used |-> NumText(usedPercent) \o <<"%">>,
                remaining |-> IntText(remainPercent) \o <<"%">>,
                resetIn |-> resetInStr,
                resetDate |-> resetDateStr] >>

\* An adapter that tabulates the secondary window as well, to show that C4
\* depends on the primary window alone being tabulated
openAIUsageResultBothWindows(usage, email, reads) ==
    LET tableRow == extractTableRowOpenAI(usage, email, reads)
        second == IF secondaryOf(usage) = <<>> THEN <<>>
                  ELSE extractTableRowOpenAI(
                          [usage EXCEPT !.rate_limit[1].primary_window =
                                            secondaryOf(usage)],
                          email, reads)
    IN  Success(formatOpenAIUsage(usage, email), tableRow \o second)

\* queryOpenAIUsage once the usage response has arrived (lines 266-271)
openAIUsageResult(usage, email, reads) ==
    LET tableRow == extractTableRowOpenAI(usage, email, reads)
    IN  Success(formatOpenAIUsage(usage, email),
                IF tableRow # <<>> THEN <<tableRow[1]>> ELSE <<>>)

-----------------------------------------------------------------------------
(* minimax.ts and anthropic.ts: extractCountdown *)

\* The first index k >= from with s[k] = a, or 0
PosOf(s, a, from) ==
    LET hits == {k \in from..Len(s) : s[k] = a}
    IN  IF hits = {} THEN 0 ELSE CHOOSE k \in hits : \A j \in hits : k <= j

RECURSIVE Trim(_)
Trim(s) ==
    IF s = <<>> THEN s
    ELSE IF Head(s) = " " THEN Trim(Tail(s))
    ELSE IF s[Len(s)] = " " THEN Trim(SubSeq(s, 1, Len(s) - 1))
    ELSE s

\* fullString.match(/Resets in:\s*(.+?)\s*\(/): the text between the first
\* "Resets in:" and the first "(" after it, trimmed; the whole string when
\* there is no match
extractCountdown(fullString) ==
    LET i == PosOf(fullString, "Resets in:", 1)
        j == IF i = 0 THEN 0 ELSE PosOf(fullString, "(", i + 2)
    IN  IF i = 0 \/ j = 0 THEN fullString
        ELSE Trim(SubSeq(fullString, i + 1, j - 1))

-----------------------------------------------------------------------------
(* minimax.ts *)

\* A selection of the last entry, to show that C24 depends on the first entry
\* alone being used
firstModelRemainsLast(resp) ==
    IF resp.model_remains = <<>> THEN <<>>
    ELSE <<resp.model_remains[Len(resp.model_remains)]>>

\* resp.model_remains?.[0]
firstModelRemains(resp) ==
    IF resp.model_remains = <<>> THEN <<>> ELSE <<resp.model_remains[1]>>

\* x ?? dflt
Coalesce(x, dflt) == IF x = <<>> THEN dflt ELSE x[1]

\* total > 0 ? (used / total) * 100 : 0
usagePercentOf(used, total) == IF total > 0 THEN <<used * 100, total>> ELSE <<0, 1>>

planLabelOf(d) ==
    IF d # <<>> /\ d[1].plan_name # <<>>
    THEN <<"Coding Plan - ">> \o d[1].plan_name
    ELSE <<"Coding Plan">>

\* reads[1] is Date.now() of line 396 or 429, reads[2] the one inside
\* formatResetTime.  "(cycle)" stands for the emoji of line 391.
formatMiniMaxUsage(resp, apiKey, reads) ==
    LET modelRemains == firstModelRemains(resp)
        d == resp.data
        maskedKey == maskString(apiKey, 8)
    IN  IF modelRemains # <<>> THEN
            LET total == modelRemains[1].current_interval_total_count
                used == modelRemains[1].current_interval_usage_count
                usagePercent == usagePercentOf(used, total)
                remainPercent == calcRemainPercent(usagePercent)
                progressBar == createProgressBar(QInt(remainPercent), DefaultBarWidth)
                l0 == << <<"**">> \o t.account \o <<"**", " MiniMax ", "(">> \o maskedKey
                         \o <<")", " - ">> \o modelRemains[1].model_name,
                         <<>>,
                         <<"(cycle)", " ">> \o t.minimaxPromptLimit,
                         progressBar \o <<" ">> \o remaining(remainPercent),
                         t.used \o <<":", " ">> \o IntText(used) \o <<" / ">>
                         \o IntText(total) \o <<" prompts">> >>
                l1 == IF modelRemains[1].end_time # 0 /\ modelRemains[1].end_time > reads[1]
                      THEN l0 \o << resetIn(formatResetTime(modelRemains[1].end_time, FALSE, reads[2])) >>
                      ELSE l0
                lines == IF QLe(QInt(HIGH_USAGE_THRESHOLD), usagePercent)
                         THEN l1 \o << <<>>, t.limitReached >> ELSE l1
            IN  Join(lines, <<"\n">>)
        ELSE IF d # <<>> THEN
            LET l0 == << t.account \o <<"        ">> \o maskedKey \o <<" ", "(">>
                         \o planLabelOf(d) \o <<")">>,
                         <<>> >>
            IN  IF d[1].total_prompts = <<>> /\ d[1].remaining_prompts = <<>>
                THEN Join(l0 \o << t.noQuotaData >>, <<"\n">>)
                ELSE
                LET total == Coalesce(d[1].total_prompts, 0)
                    used == Coalesce(d[1].used_prompts,
                                     total - Coalesce(d[1].remaining_prompts, total))
                    usagePercent == Coalesce(d[1].usage_percentage,
                                             usagePercentOf(used, total))
                    remainPercent == calcRemainPercent(usagePercent)
                    progressBar == createProgressBar(QInt(remainPercent), DefaultBarWidth)
                    l1 == l0 \o << t.minimaxPromptLimit,
                                   progressBar \o <<" ">> \o remaining(remainPercent),
                                   t.used \o <<":", " ">> \o IntText(used) \o <<" / ">>
                                   \o IntText(total) \o <<" prompts">> >>
                    l2 == IF d[1].next_reset_time # 0 /\ d[1].next_reset_time > reads[1]
                          THEN l1 \o << resetIn(formatResetTime(d[1].next_reset_time, FALSE, reads[2])) >>
                          ELSE l1
                    lines == IF QLe(QInt(HIGH_USAGE_THRESHOLD), usagePercent)
                             THEN l2 \o << <<>>, t.limitReached >> ELSE l2
                IN  Join(lines, <<"\n">>)
        ELSE Join(<< t.account \o <<" MiniMax ", "(">> \o maskedKey \o <<")">>,
                     <<>>,
                     t.noQuotaData >>, <<"\n">>)

\* The reset columns of a row: reads[1] is the Date.now() of the adapter's own
\* "reset time > now" test, reads[2] and reads[3] the ones inside the two
\* calls of formatResetTime
resetColumns(resetTime, reads) ==
    IF resetTime # 0 /\ resetTime > reads[1]
    THEN [resetDate |-> formatResetTime(resetTime, TRUE, reads[2]),
          resetIn |-> extractCountdown(formatResetTime(resetTime, FALSE, reads[3]))]
    ELSE [resetDate |-> <<"-">>, resetIn |-> <<"-">>]

\* A used field that is not inverted, to show that C6 depends on the inversion
miniMaxUsedFieldPlain(usagePercent) ==
    IntText(MathRound(usagePercent)) \o <<"%">>

\* A remaining field that is rounded down, to show that C30 depends on
\* Math.round
miniMaxRemainingFieldFloor(usagePercent) ==
    IntText(usagePercent[1] \div usagePercent[2]) \o <<"%">>

\* The row's used and remaining fields of a usage percentage (lines 474-475,
\* 487-488)
miniMaxUsedField(usagePercent) ==
    IntText(MathRound(<<100 * usagePercent[2] - usagePercent[1], usagePercent[2]>>)) \o <<"%">>
miniMaxRemainingField(usagePercent) ==
    IntText(MathRound(usagePercent)) \o <<"%">>

extractTableRowMiniMax(resp, apiKey, reads) ==
    LET maskedKey == maskString(apiKey, 4)
        modelRemains == firstModelRemains(resp)
        d == resp.data
        dash == <<"-">>
        fields ==
            IF modelRemains # <<>> THEN
                LET totalPrompts == modelRemains[1].current_interval_total_count
                    usedPrompts == modelRemains[1].current_interval_usage_count
                    usagePercent == usagePercentOf(usedPrompts, totalPrompts)
                    rc == resetColumns(modelRemains[1].end_time, reads)
                IN  [used |-> miniMaxUsedField(usagePercent),
                     remaining |-> miniMaxRemainingField(usagePercent),
                     resetIn |-> rc.resetIn, resetDate |-> rc.resetDate]
            ELSE IF d # <<>> THEN
                LET totalPrompts == Coalesce(d[1].total_prompts, 0)
                    usedPrompts == Coalesce(d[1].used_prompts, 0)
                    usagePercent == usagePercentOf(usedPrompts, totalPrompts)
                    rc == resetColumns(d[1].next_reset_time, reads)
                IN  [used |-> miniMaxUsedField(usagePercent),
                     remaining |-> miniMaxRemainingField(usagePercent),
                     resetIn |-> rc.resetIn, resetDate |-> rc.resetDate]
            ELSE [used |-> dash, remaining |-> dash, resetIn |-> dash, resetDate |-> dash]
    IN  << [provider |-> <<"MiniMax">>,
            account |-> maskedKey,
            plan |-> planLabelOf(d),
            used |-> fields.used,
            remaining |-> fields.remaining,
            resetIn |-> fields.resetIn,
            resetDate |-> fields.resetDate] >>

\* queryMiniMaxUsage once fetchWithCurl has returned (lines 532-537): the row
\* is extracted first (reads 1-3), then the text is formatted (reads 4-5)
miniMaxUsageResult(usage, key, reads) ==
    LET tableRow == extractTableRowMiniMax(usage, key, SubSeq(reads, 1, 3))
    IN  Success(formatMiniMaxUsage(usage, key, SubSeq(reads, 4, 5)),
                IF tableRow # <<>> THEN <<tableRow[1]>> ELSE <<>>)

-----------------------------------------------------------------------------
(* anthropic.ts.  A window is [utilization |-> <<n, d>>, resets_at |-> r]:   *)
(* r is <<>> when resets_at is absent and <<ms>> when it is a date string,  *)
(* ms being what new Date(resets_at).getTime() returns.                     *)

\* Math.round(window.utilization || 0)
roundedUtilization(window) == MathRound(window.utilization)

\* The lines of one window of the legacy text.  reads[1] is the Date.now() of
\* line 403 or 425, reads[2] the one inside formatResetTime.
claudeWindowLines(window, title, reads) ==
    LET usedPct == roundedUtilization(window)
        remainPercent == calcRemainPercent(QInt(usedPct))
        progressBar == createProgressBar(QInt(remainPercent), DefaultBarWidth)
        l0 == << title,
                 progressBar \o <<" ">> \o remaining(remainPercent),
                 t.used \o <<":", " ">> \o IntText(usedPct) \o <<"%">> >>
        l1 == IF window.resets_at # <<>> /\ window.resets_at[1] > reads[1]
              THEN l0 \o << resetIn(formatResetTime(window.resets_at[1], FALSE, reads[2])) >>
              ELSE l0
    IN  IF usedPct >= HIGH_USAGE_THRESHOLD THEN l1 \o << t.limitReached >> ELSE l1

\* data is optional (null when the usage call gave nothing).  "(cycle)" and
\* "(calendar)" stand for the emoji of lines 397 and 419.
formatClaudeUsage(data, accessToken, reads) ==
    LET maskedToken == maskString(accessToken, 8)
        l0 == << <<"**">> \o t.account \o <<"**", " Claude.ai ", "(">> \o maskedToken \o <<")">>,
                 <<>> >>
    IN  IF data = <<>> THEN Join(l0 \o << t.noQuotaData >>, <<"\n">>)
        ELSE
        LET fiveHour == data[1].five_hour
            sevenDay == data[1].seven_day
            l1 == IF fiveHour # <<>>
                  THEN l0 \o claudeWindowLines(fiveHour[1],
                                 <<"(cycle)", " ">> \o t.anthropic5HourUsage,
                                 SubSeq(reads, 1, 2))
                  ELSE l0
            l2 == IF sevenDay # <<>>
                  THEN (IF Len(l1) > 2 THEN l1 \o << <<>> >> ELSE l1)
                       \o claudeWindowLines(sevenDay[1],
                                 <<"(calendar)", " ">> \o t.anthropic7DayUsage,
                                 SubSeq(reads, 3, 4))
                  ELSE l1
        IN  Join(l2, <<"\n">>)

\* One row of the table (lines 452-475 and 477-500).  reads[1] is the
\* Date.now() of line 459 or 484, reads[2] and reads[3] the ones inside the
\* two calls of formatResetTime.
claudeRow(window, plan, maskedToken, reads) ==
    LET usedPercent == roundedUtilization(window)
        future == window.resets_at # <<>> /\ window.resets_at[1] > reads[1]
    IN  [provider |-> <<"Anthropic">>,
         account |-> maskedToken,
         plan |-> plan,
         used |-> IntText(usedPercent) \o <<"%">>,
         remaining |-> IntText(calcRemainPercent(QInt(usedPercent))) \o <<"%">>,
         resetIn |-> IF future
                     THEN extractCountdown(formatResetTime(window.resets_at[1], FALSE, reads[3]))
                     ELSE <<"-">>,
         resetDate |-> IF future
                       THEN formatResetTime(window.resets_at[1], TRUE, reads[2])
                       ELSE <<"-">>]

\* Rows with the seven-day window first, to show that C5 depends on the order
extractTableRowsWeeklyFirst(data, accessToken, reads) ==
    IF data = <<>> THEN <<>>
    ELSE
    LET maskedToken == maskString(accessToken, 4)
        fiveHour == data[1].five_hour
        sevenDay == data[1].seven_day
        r1 == IF sevenDay # <<>>
              THEN << claudeRow(sevenDay[1], <<"Claude Pro (7d)">>, maskedToken,
                                SubSeq(reads, 1, 3)) >>
              ELSE <<>>
    IN  IF fiveHour # <<>>
        THEN r1 \o << claudeRow(fiveHour[1], <<"Claude Pro (5h)">>, maskedToken,
                                SubSeq(reads, 4, 6)) >>
        ELSE r1

extractTableRows(data, accessToken, reads) ==
    IF data = <<>> THEN <<>>
    ELSE
    LET maskedToken == maskString(accessToken, 4)
        fiveHour == data[1].five_hour
        sevenDay == data[1].seven_day
        r1 == IF fiveHour # <<>>
              THEN << claudeRow(fiveHour[1], <<"Claude Pro (5h)">>, maskedToken,
                                SubSeq(reads, 1, 3)) >>
              ELSE <<>>
    IN  IF sevenDay # <<>>
        THEN r1 \o << claudeRow(sevenDay[1], <<"Claude Pro (7d)">>, maskedToken,
                                SubSeq(reads, 4, 6)) >>
        ELSE r1

\* queryAnthropicUsage once fetchClaudeUsage has returned (lines 532-544): the
\* rows are extracted first (reads 1-6), then the text is formatted (reads 7-10)
anthropicUsageResult(usage, accessToken, reads) ==
    IF usage = <<>> THEN Failure(<<"Anthropic: Failed to fetch usage data">>)
    ELSE Success(formatClaudeUsage(usage, accessToken, SubSeq(reads, 7, 10)),
                 extractTableRows(usage, accessToken, SubSeq(reads, 1, 6)))

-----------------------------------------------------------------------------
(* openai.ts, minimax.ts, anthropic.ts: the adapters around their requests *)

\* getEmailFromJwt: the email claim of a bearer token of three
\* period-delimited segments whose middle segment decodes; null otherwise.
\* A token is kept as the number of its segments and its payload's claim.
getEmailFromJwt(token) == IF token.segments # 3 THEN <<>> ELSE token.email

\* JSON.parse and response.json() on a body that is not JSON: the message of
\* the SyntaxError
JsonSyntaxError == <<"Unexpected token < in JSON at position 0">>

\* The state of one adapter call: not started, awaiting its request
\* ("refreshing", "pending"), or settled with its optional QueryResult
Task(st, result, secret, email) ==
    [st |-> st, result |-> result, secret |-> secret, email |-> email]

NoTask == Task("none", <<>>, <<>>, <<>>)

Settled(task0, result) ==
    IF result # <<>> /\ IsRejection(result[1])
    THEN [task0 EXCEPT !.st = "rejected"]
    ELSE [task0 EXCEPT !.st = "settled", !.result = result]

\* queryOpenAIUsage up to its first await (lines 251-265); clock is the value
\* of Date.now() at line 256
\* authData is the optional record; its expires is optional as well
queryOpenAIUsageStart(authData0, clock) ==
    IF authData0 = <<>> \/ authData0[1].type # "oauth" \/ authData0[1].access = <<>>
    THEN Task("settled", <<>>, <<>>, <<>>)
    ELSE IF /\ authData0[1].expires # <<>>
            /\ authData0[1].expires[1] # 0
            /\ authData0[1].expires[1] < clock
    THEN Task("settled", << Failure(t.tokenExpired) >>, <<>>, <<>>)
    ELSE Task("pending", <<>>, <<>>, getEmailFromJwt(authData0[1].access[1]))

\* queryOpenAIUsage from the settling of fetchOpenAIUsage on (lines 137-160,
\* 265-277): the request timed out, failed, was answered with a non-2xx
\* status, with a body that is not JSON, or with a usage body
openAIQueryResult(outcome, email, reads) ==
    CASE outcome.kind = "timeout" ->
            Failure(timeoutError(MathRound(<<REQUEST_TIMEOUT_MS, 1000>>)))
      [] outcome.kind = "network" -> Failure(<<"fetch failed">>)
      [] outcome.kind = "status" -> Failure(apiError(outcome.status, outcome.text))
      [] outcome.kind = "badjson" -> Failure(JsonSyntaxError)
      [] outcome.kind = "ok" -> openAIUsageResult(outcome.usage, email, reads)

\* fetchWithCurl: the command line handed to exec
curlCommand(apiKey) ==
    <<"curl -s -X GET \"https://api.minimax.io/v1/api/openplatform/coding_plan/remains\"     -H \"Authorization: Bearer ">>
    \o apiKey
    \o <<"\"     -H \"Content-Type: application/json\"     -H \"User-Agent: Mozilla/5.0 (Windows NT 10.0; Win64; x64) AppleWebKit/537.36 (KHTML, like Gecko) Chrome/120.0.0.0 Safari/537.36\"     -H \"Accept: application/json\"">>

\* child_process.exec rejects, when the command exits with a non-zero code or
\* is killed at its timeout, with an Error whose message is "Command failed: "
\* followed by the command line, a line feed and what the command wrote to
\* stderr (nothing, under curl -s)
execErrorMessage(cmd) == <<"Command failed: ">> \o cmd \o <<"\n">>

\* queryMiniMaxUsage up to its first await (lines 523-531)
queryMiniMaxUsageStart(authData0) ==
    IF authData0 = <<>> \/ authData0[1].key = <<>>
    THEN Task("settled", << Failure(t.minimaxNeedLogin) >>, <<>>, <<>>)
    ELSE Task("pending", <<>>, authData0[1].key, <<>>)

\* The TypeError of data.base_resp.status_code on a body without base_resp
NoBaseRespError == <<"Cannot read properties of undefined (reading 'status_code')">>

\* An adapter without the try block of lines 531-543, which lets what
\* fetchWithCurl throws leave the function, to show that C20 depends on it
miniMaxQueryResultUncaught(outcome, key, reads) ==
    CASE outcome.kind = "exec" -> Rejection(execErrorMessage(curlCommand(key)))
      [] outcome.kind = "badjson" ->
            Rejection(minimaxApiError(0, IF outcome.stdout # <<>> THEN outcome.stdout
                                         ELSE <<"Invalid response">>))
      [] outcome.kind = "status" ->
            Rejection(minimaxApiError(outcome.status,
                                      IF outcome.text # <<>> THEN outcome.text
                                      ELSE <<"Unknown error">>))
      [] outcome.kind = "shape" -> Rejection(NoBaseRespError)
      [] outcome.kind = "ok" -> miniMaxUsageResult(outcome.usage, key, reads)

\* queryMiniMaxUsage from the settling of exec on (lines 337-362, 531-543):
\* the command failed, wrote something that is not JSON, wrote a body with a
\* non-zero status code, a JSON body without base_resp, or a usage body
miniMaxQueryResult(outcome, key, reads) ==
    CASE outcome.kind = "exec" -> Failure(execErrorMessage(curlCommand(key)))
      [] outcome.kind = "badjson" ->
            Failure(minimaxApiError(0, IF outcome.stdout # <<>> THEN outcome.stdout
                                       ELSE <<"Invalid response">>))
      [] outcome.kind = "status" ->
            Failure(minimaxApiError(outcome.status,
                                    IF outcome.text # <<>> THEN outcome.text
                                    ELSE <<"Unknown error">>))
      [] outcome.kind = "shape" -> Failure(NoBaseRespError)
      [] outcome.kind = "ok" -> miniMaxUsageResult(outcome.usage, key, reads)

\* queryAnthropicUsage up to its first await (lines 517-531); clock is the
\* value of Date.now() at line 523
queryAnthropicUsageStart(authData0, clock) ==
    IF authData0 = <<>> \/ authData0[1].access = <<>>
    THEN Task("settled", <<>>, <<>>, <<>>)
    ELSE IF /\ authData0[1].refresh # <<>>
            /\ authData0[1].expires # <<>>
            /\ authData0[1].expires[1] # 0
            /\ authData0[1].expires[1] < clock
    THEN Task("refreshing", <<>>, authData0[1].access, <<>>)
    ELSE Task("pending", <<>>, authData0[1].access, <<>>)

\* refreshAccessToken (lines 323-349): the new token when the token endpoint
\* answers 2xx with a JSON body that has a non-empty access_token, null when
\* the request fails, is answered with another status or another body
refreshAccessToken(outcome) ==
    IF outcome.kind = "ok" /\ outcome.access_token # <<>>
    THEN << outcome.access_token >> ELSE <<>>

\* fetchClaudeUsage (lines 351-372): the body when the usage endpoint answers
\* 2xx with JSON, null when the request fails (timeout, network), is answered
\* with a non-2xx status or with a body that is not JSON
fetchClaudeUsage(outcome) ==
    IF outcome.kind = "ok" THEN << outcome.usage >> ELSE <<>>

\* queryAnthropicUsage once refreshAccessToken has returned (lines 524-531):
\* newToken is the optional token, <<>> for null
afterRefresh(task0, newToken) ==
    [task0 EXCEPT !.st = "pending",
                  !.secret = IF newToken # <<>> THEN newToken[1] ELSE @]

-----------------------------------------------------------------------------
(* copilot.ts.  The adapter is not among the sources at hand; it is kept to *)
(* its contract: it settles with null, with a failure carrying an error     *)
(* string, or with a success carrying an optional text and rows.            *)

CopilotRow ==
    [provider |-> <<"GitHub Copilot">>, account |-> <<"o", "c", "t", "o">>,
     plan |-> <<"Pro">>, used |-> <<"3", "0", "%">>,
     remaining |-> <<"7", "0", "%">>, resetIn |-> <<"-">>, resetDate |-> <<"-">>]

queryCopilotUsage ==
    { <<>>,
      << Failure(t.copilotQuotaUnavailable) >>,
      << Success(<<"Premium requests: 30% used">>, << CopilotRow >>) >>,
      << Success(<<>>, << CopilotRow >>) >> }

-----------------------------------------------------------------------------
(* mystatus.ts *)

Providers == {"openai", "minimax", "copilot", "anthropic"}

\* What reading and parsing auth.json gives
AuthFile(kind, data) == [kind |-> kind, data |-> data]

NoAuthFile == AuthFile("none", <<>>)

titleOf(key) ==
    CASE key = "openai" -> t.openaiTitle
      [] key = "minimax" -> t.minimaxTitle
      [] key = "copilot" -> t.copilotTitle
      [] key = "anthropic" -> t.anthropicTitle

\* join(homedir(), ".local/share/opencode/auth.json")
authPath == <<"/home/user", "/.local/share/opencode/auth.json">>

\* The keys of the query tasks execute pushes (lines 614-650), in order
queriesOf(data) ==
    (IF data.openai # <<>> THEN <<"openai">> ELSE <<>>)
    \o (IF data.minimaxCodingPlan # <<>> \/ data.minimax # <<>>
        THEN <<"minimax">> ELSE <<>>)
    \o (IF data.githubCopilot # <<>> THEN <<"copilot">> ELSE <<>>)
    \o (IF data.anthropic # <<>> THEN <<"anthropic">> ELSE <<>>)

\* A selection that prefers the alias, to show that C23 depends on the order
\* of the two keys
miniMaxCredentialAliasFirst(data) ==
    IF data.minimax # <<>> THEN data.minimax
    ELSE data.minimaxCodingPlan

\* authData["minimax-coding-plan"] ?? authData.minimax
miniMaxCredential(data) ==
    IF data.minimaxCodingPlan # <<>> THEN data.minimaxCodingPlan
    ELSE data.minimax

\* The adapter calls execute starts (lines 614-650), each run to its first
\* await; reads[1] and reads[2] are the clock at the expiry checks of the
\* OpenAI and the Anthropic adapter
startQueries(data, reads) ==
    [p \in Providers |->
        IF p = "openai" /\ data.openai # <<>>
        THEN queryOpenAIUsageStart(data.openai, reads[1])
        ELSE IF p = "minimax" /\ (data.minimaxCodingPlan # <<>> \/ data.minimax # <<>>)
        THEN queryMiniMaxUsageStart(miniMaxCredential(data))
        ELSE IF p = "copilot" /\ data.githubCopilot # <<>>
        THEN Task("pending", <<>>, <<>>, <<>>)
        ELSE IF p = "anthropic" /\ data.anthropic # <<>>
        THEN queryAnthropicUsageStart(data.anthropic, reads[2])
        ELSE NoTask]

\* The events of an invocation: an adapter is called, a request or a
\* subprocess is started, execute awaits Promise.all
CallEvent(key) == <<"call", key>>
OpenAIUsageRequest == <<"fetch", "https://chatgpt.com/backend-api/wham/usage">>
MiniMaxUsageRequest == <<"exec", "curl https://api.minimax.io/v1/api/openplatform/coding_plan/remains">>
ClaudeTokenRequest == <<"fetch", "https://console.anthropic.com/v1/oauth/token">>
ClaudeUsageRequest == <<"fetch", "https://api.anthropic.com/api/oauth/usage">>
AwaitAll == <<"await", "Promise.all">>

\* The request an adapter has issued when it reaches its first await
requestOf(key, task0) ==
    CASE key = "openai" /\ task0.st = "pending" -> << OpenAIUsageRequest >>
      [] key = "minimax" /\ task0.st = "pending" -> << MiniMaxUsageRequest >>
      [] key = "anthropic" /\ task0.st = "refreshing" -> << ClaudeTokenRequest >>
      [] key = "anthropic" /\ task0.st = "pending" -> << ClaudeUsageRequest >>
      [] OTHER -> <<>>

\* What execute does from line 614 to line 653, in order: each adapter call
\* with the request it issues, then the await of Promise.all
RECURSIVE startEvents(_, _, _)
startEvents(i, keys, tasks) ==
    IF i > Len(keys) THEN << AwaitAll >>
    ELSE << CallEvent(keys[i]) >> \o requestOf(keys[i], tasks[keys[i]])
         \o startEvents(i + 1, keys, tasks)

\* No request has met anything yet: neither the usage request of a provider
\* nor the token request of the Anthropic adapter
NoUpstream == [p \in Providers \cup {"token"} |-> "none"]

NoResults == [results |-> <<>>, errors |-> <<>>, tableRows |-> <<>>]

\* A collection that drops every success met after a failure, to show that C1
\* depends on failures and successes being collected independently
collectResultFirstError(result, title, acc) ==
    IF result = <<>> THEN acc
    ELSE IF result[1].success
    THEN IF acc.errors # <<>> THEN acc
         ELSE [acc EXCEPT
                 !.results = IF result[1].output # <<>>
                             THEN (IF Len(@) > 0 THEN Append(@, <<>>) ELSE @)
                                  \o << title, <<>>, result[1].output >>
                             ELSE @,
                 !.tableRows = @ \o result[1].tableRows]
    ELSE IF result[1].error # <<>>
    THEN [acc EXCEPT !.errors = Append(@, result[1].error)]
    ELSE acc

\* A collection that reports a null result as an error under the title of
\* its provider, to show that C13 depends on null being skipped
collectResultNullError(result, title, acc) ==
    IF result = <<>> THEN [acc EXCEPT !.errors = Append(@, title)]
    ELSE IF result[1].success
    THEN [acc EXCEPT
            !.results = IF result[1].output # <<>>
                        THEN (IF Len(@) > 0 THEN Append(@, <<>>) ELSE @)
                             \o << title, <<>>, result[1].output >>
                        ELSE @,
            !.tableRows = @ \o result[1].tableRows]
    ELSE IF result[1].error # <<>>
    THEN [acc EXCEPT !.errors = Append(@, result[1].error)]
    ELSE acc

\* result is the optional QueryResult, <<>> for null; acc holds the arrays
\* results, errors and tableRows the function appends to
collectResult(result, title, acc) ==
    IF result = <<>> THEN acc
    ELSE IF result[1].success
    THEN [acc EXCEPT
            !.results = IF result[1].output # <<>>
                        THEN (IF Len(@) > 0 THEN Append(@, <<>>) ELSE @)
                             \o << title, <<>>, result[1].output >>
                        ELSE @,
            !.tableRows = @ \o result[1].tableRows]
    ELSE IF result[1].error # <<>>
    THEN [acc EXCEPT !.errors = Append(@, result[1].error)]
    ELSE acc

\* The collection loop of execute (lines 656-668) from query i on
\* A collection that takes the results from the last query to the first, to
\* show that C29 depends on the order of the queries array
RECURSIVE collectFromReversed(_, _, _, _)
collectFromReversed(i, keys, tasks, acc) ==
    IF i > Len(keys) THEN acc
    ELSE collectResult(tasks[keys[i]].result, titleOf(keys[i]),
                       collectFromReversed(i + 1, keys, tasks, acc))

RECURSIVE collectFrom(_, _, _, _)
collectFrom(i, keys, tasks, acc) ==
    IF i > Len(keys) THEN acc
    ELSE collectFrom(i + 1, keys, tasks,
                     collectResult(tasks[keys[i]].result, titleOf(keys[i]), acc))

Columns == <<"provider", "account", "plan", "used", "remaining", "resetIn", "resetDate">>

MaxOf(S) == CHOOSE m \in S : \A x \in S : x <= m

\* String.prototype.padEnd(w, " ")
padEnd(str, w) == str \o Repeat(" ", Max(w - TextLen(str), 0))

colWidths(rows) ==
    [i \in 1..Len(Columns) |->
        MaxOf({TextLen(t.tableHeader[Columns[i]])}
              \cup {TextLen(rows[k][Columns[i]]) : k \in 1..Len(rows)})]

\* One line of the table: the cells padded to the widths, between pipes
tableLine(cells, widths) ==
    <<"|">> \o Join([i \in 1..Len(Columns) |-> padEnd(cells[Columns[i]], widths[i])],
                    <<"|">>)
            \o <<"|">>

separatorLine(widths) ==
    <<"|">> \o Repeat("-", widths[1] + 1)
    \o Join([i \in 1..(Len(Columns) - 1) |->
                <<"|", "-">> \o Repeat("-", widths[i + 1] + 1)], <<>>)
    \o <<"|">>

renderTable(rows) ==
    LET widths == colWidths(rows)
        headerRow == tableLine(t.tableHeader, widths)
        dataRows == [k \in 1..Len(rows) |-> tableLine(rows[k], widths)]
    IN  t.tableTitle \o <<"\n", "\n">> \o headerRow \o <<"\n">>
        \o separatorLine(widths) \o <<"\n">> \o Join(dataRows, <<"\n">>)

\* An aggregation without the canned message of line 672, to show that C3
\* depends on it
aggregateOutputNoCanned(acc) ==
    LET body == IF Len(acc.tableRows) > 0 THEN renderTable(acc.tableRows)
                ELSE IF Len(acc.results) > 0 THEN Join(acc.results, <<"\n">>)
                ELSE <<>>
    IN  IF Len(acc.errors) > 0
        THEN (IF body # <<>> THEN body \o <<"\n", "\n">> ELSE body)
             \o t.queryFailed \o Join(acc.errors, <<"\n">>)
        ELSE body

\* An aggregation that puts the error section before the primary output, to
\* show that C21 depends on the errors being appended after it
aggregateOutputErrorsFirst(acc) ==
    IF Len(acc.results) = 0 /\ Len(acc.errors) = 0 THEN t.noAccounts
    ELSE
    LET body == IF Len(acc.tableRows) > 0 THEN renderTable(acc.tableRows)
                ELSE IF Len(acc.results) > 0 THEN Join(acc.results, <<"\n">>)
                ELSE <<>>
    IN  IF Len(acc.errors) > 0
        THEN t.queryFailed \o Join(acc.errors, <<"\n">>)
             \o (IF body # <<>> THEN <<"\n", "\n">> \o body ELSE body)
        ELSE body

\* execute from the end of the collection loop on (lines 670-690)
aggregateOutput(acc) ==
    IF Len(acc.results) = 0 /\ Len(acc.errors) = 0 THEN t.noAccounts
    ELSE
    LET body == IF Len(acc.tableRows) > 0 THEN renderTable(acc.tableRows)
                ELSE IF Len(acc.results) > 0 THEN Join(acc.results, <<"\n">>)
                ELSE <<>>
    IN  IF Len(acc.errors) > 0
        THEN (IF body # <<>> THEN body \o <<"\n", "\n">> ELSE body)
             \o t.queryFailed \o Join(acc.errors, <<"\n">>)
        ELSE body

-----------------------------------------------------------------------------
(* Function-level runs: a function of the program applied to bounded inputs *)

Alphabet == {"a", "b"}

Strings(maxLen) == UNION {[1..k -> Alphabet] : k \in 0..maxLen}

NoCall == [fn |-> "none"]

CallMaskString ==
    /\ call = NoCall
    /\ \E s \in Strings(MaxLen), n \in 0..MaxShow :
        /\ call' = [fn |-> "maskString", str |-> s, showChars |-> n]
        /\ ret' = maskString(s, n)
    /\ UNCHANGED <<currentLang, now, toolVars>>

CallCreateProgressBar ==
    /\ call = NoCall
    /\ \E h \in (0 - 10)..MaxHalfPercent, w \in (1..MaxWidth) \cup {DefaultBarWidth} :
        /\ call' = [fn |-> "createProgressBar", remainPercent |-> <<h, 2>>, width |-> w]
        /\ ret' = createProgressBar(<<h, 2>>, w)
    /\ UNCHANGED <<currentLang, now, toolVars>>

\* The values successive Date.now() calls of one synchronous stretch of code
\* return: the clock does not go back, and advances at most once, to at most
\* StartTime + MaxDrift
ClockReads(n) ==
    { [i \in 1..n |-> IF i < k THEN now ELSE now + j] :
        k \in 1..(n + 1), j \in 0..Min(MaxDrift, StartTime + MaxDrift - now) }

SecretChars == <<"a", "b", "c", "d", "e", "f", "g", "h", "i", "j",
                 "k", "l", "m", "n", "o", "p", "q", "r", "s", "t">>

\* A secret of len characters, all different
Secret(len) == SubSeq(SecretChars, 1, len)

SampleEmail == <<"u", "@", "x", ".", "y">>
SamplePlan == <<"t", "e", "a", "m">>

ResetSeconds == {0, 59, 9000, 90061}

Window(usedPercent, windowSeconds, resetAfter) ==
    [used_percent |-> usedPercent,
     limit_window_seconds |-> windowSeconds,
     reset_after_seconds |-> resetAfter]

\* OpenAIUsageResponse bodies: rate_limit null, or a rate_limit with or
\* without its windows
OpenAIUsages(usedPercents, resets) ==
    { [plan_type |-> SamplePlan, rate_limit |-> <<>>] }
    \cup
    { [plan_type |-> SamplePlan,
       rate_limit |-> << [limit_reached |-> FALSE,
                          primary_window |-> <<>>,
                          secondary_window |-> <<>>] >>] }
    \cup
    { [plan_type |-> SamplePlan,
       rate_limit |-> << [limit_reached |-> QLe(QInt(100), p),
                          primary_window |-> << Window(p, 18000, ra) >>,
                          secondary_window |-> sec] >>] :
        p \in usedPercents, ra \in resets,
        sec \in { <<>>, << Window(<<40, 1>>, 604800, 90061) >> } }

AllUsedPercents == { <<h, 2>> : h \in 0..MaxUsedHalves }
SampleUsedPercents == { <<15, 1>>, <<31, 2>>, <<100, 1>> }

CallOpenAIUsageResult ==
    /\ call = NoCall
    /\ \E usage \in OpenAIUsages(AllUsedPercents, {9000})
                    \cup OpenAIUsages(SampleUsedPercents, ResetSeconds),
          email \in {<<>>, SampleEmail},
          reads \in ClockReads(2) :
        /\ call' = [fn |-> "openAIUsageResult", usage |-> usage,
                    email |-> email, reads |-> reads]
        /\ ret' = openAIUsageResult(usage, email, reads)
    /\ UNCHANGED <<currentLang, now, toolVars>>

\* Reset instants around the clock: absent, not in the future, one
\* millisecond ahead, 4 h 51 min ahead
ResetInstants == {0, now, now + 1, now + 17460000}

ModelRemain(total, used, endTime) ==
    [end_time |-> endTime,
     current_interval_total_count |-> total,
     current_interval_usage_count |-> used,
     model_name |-> <<"M", "2">>]

PlanData(total, used, nextReset) ==
    [plan_name |-> <<"P", "r", "o">>,
     total_prompts |-> <<total>>,
     used_prompts |-> <<used>>,
     remaining_prompts |-> <<total - used>>,
     next_reset_time |-> nextReset,
     usage_percentage |-> <<>>]

EmptyPlanData ==
    [plan_name |-> <<>>, total_prompts |-> <<>>, used_prompts |-> <<>>,
     remaining_prompts |-> <<>>, next_reset_time |-> 0, usage_percentage |-> <<>>]

\* An aggregate record that gives the total, the remaining prompts and the
\* usage percentage, not the used prompts
PartialPlanData ==
    [plan_name |-> <<>>, total_prompts |-> <<8>>, used_prompts |-> <<>>,
     remaining_prompts |-> <<2>>, next_reset_time |-> 0,
     usage_percentage |-> << <<75, 1>> >>]

OkBaseResp == [status_code |-> 0, status_msg |-> <<"o", "k">>]

\* MiniMaxRemainsResponse bodies of status 0: per-model entries (with or
\* without further entries and the aggregate record), the aggregate record
\* alone, neither
MiniMaxUsages(counts, instants, mores, datas) ==
    { [base_resp |-> OkBaseResp,
       model_remains |-> << ModelRemain(c[2], c[1], e) >> \o more,
       data |-> d] :
        c \in counts, e \in instants, more \in mores, d \in datas }
    \cup
    { [base_resp |-> OkBaseResp, model_remains |-> <<>>,
       data |-> << PlanData(c[2], c[1], e) >>] : c \in counts, e \in instants }
    \cup
    { [base_resp |-> OkBaseResp, model_remains |-> <<>>, data |-> d] :
        d \in { <<>>, << EmptyPlanData >>, << PartialPlanData >> } }

\* <<used, total>> pairs
Counts(maxTotal) ==
    { <<u, tt>> : u \in 0..(maxTotal + 1), tt \in 0..maxTotal } \cup { <<1000, 5000>> }
SampleCounts == { <<1000, 5000>>, <<1, 200>>, <<9, 10>> }

CallMiniMaxUsageResult ==
    /\ call = NoCall
    /\ \E usage \in MiniMaxUsages(Counts(MaxTotal), {0}, { <<>> }, { <<>> })
                    \cup MiniMaxUsages(SampleCounts, ResetInstants,
                                       { <<>>, << ModelRemain(4, 3, 0) >> },
                                       { <<>>, << PlanData(10, 9, 0) >> }),
          key \in {Secret(20)},
          reads \in ClockReads(5) :
        /\ call' = [fn |-> "miniMaxUsageResult", usage |-> usage,
                    key |-> key, reads |-> reads]
        /\ ret' = miniMaxUsageResult(usage, key, reads)
    /\ UNCHANGED <<currentLang, now, toolVars>>

ClaudeWindow(utilization, resetsAt) ==
    [utilization |-> utilization, resets_at |-> resetsAt]

\* ClaudeUsageResponse bodies: each window present or absent
ClaudeUsages(fives, sevens) ==
    { [five_hour |-> f, seven_day |-> sd] :
        f \in { <<>> } \cup { <<w>> : w \in fives },
        sd \in { <<>> } \cup { <<w>> : w \in sevens } }

ClaudeWindows(utilizations, instants) ==
    { ClaudeWindow(u, r) : u \in utilizations,
                           r \in { <<>> } \cup { <<e>> : e \in instants } }

CallAnthropicUsageResult ==
    /\ call = NoCall
    /\ \E usage \in { <<>> } \cup
            { <<u>> : u \in
                ClaudeUsages(ClaudeWindows(AllUsedPercents, {}),
                             ClaudeWindows({<<40, 1>>}, {}))
                \cup ClaudeUsages(ClaudeWindows({<<25, 1>>}, {}),
                                  ClaudeWindows(AllUsedPercents, {}))
                \cup ClaudeUsages(ClaudeWindows({<<25, 1>>}, ResetInstants \ {0}),
                                  ClaudeWindows({<<161, 2>>}, {now + 1})) },
          token \in {Secret(20)},
          reads \in ClockReads(10) :
        /\ call' = [fn |-> "anthropicUsageResult", usage |-> usage,
                    accessToken |-> token, reads |-> reads]
        /\ ret' = anthropicUsageResult(usage, token, reads)
    /\ UNCHANGED <<currentLang, now, toolVars>>

CallCalcRemainPercent ==
    /\ call = NoCall
    /\ \E h \in 0..MaxUsedHalves :
        /\ call' = [fn |-> "calcRemainPercent", usedPercent |-> <<h, 2>>]
        /\ ret' = calcRemainPercent(<<h, 2>>)
    /\ UNCHANGED <<currentLang, now, toolVars>>

\* Durations around the unit boundaries: whole days and hours plus up to
\* MaxSeconds seconds
SampleDurations ==
    { dd * 86400 + hh * 3600 + ss :
        dd \in {0, 1, 2}, hh \in {0, 1, 23}, ss \in 0..MaxSeconds }

\* Window lengths in seconds: none, around half an hour, five hours, around
\* half a day, a day, a day and a half, a week
SampleWindowSeconds ==
    {0, 1799, 1800, 3600, 18000, 43199, 43200, 86400, 129599, 129600, 604800}

CallFormatWindowName ==
    /\ call = NoCall
    /\ \E s \in SampleWindowSeconds :
        /\ call' = [fn |-> "formatWindowName", seconds |-> s]
        /\ ret' = formatWindowName(s)
    /\ UNCHANGED <<currentLang, now, toolVars>>

CallFormatDuration ==
    /\ call = NoCall
    /\ \E s \in SampleDurations :
        /\ call' = [fn |-> "formatDuration", seconds |-> s]
        /\ ret' = formatDuration(s)
    /\ UNCHANGED <<currentLang, now, toolVars>>

\* Reset instants before, at and after the clock, the later ones at the
\* boundaries of a second, a minute, an hour and a day
SampleResetInstants ==
    { 0, StartTime - 1, StartTime, StartTime + 1, StartTime + 2,
      StartTime + 999, StartTime + 1000, StartTime + 59999, StartTime + 60000,
      StartTime + 3599999, StartTime + 3600000, StartTime + 90061000 }

CallFormatResetTime ==
    /\ call = NoCall
    /\ \E ts \in SampleResetInstants, dateOnly \in BOOLEAN, reads \in ClockReads(1) :
        /\ call' = [fn |-> "formatResetTime", resetTimestamp |-> ts,
                    dateOnly |-> dateOnly, clock |-> reads[1]]
        /\ ret' = formatResetTime(ts, dateOnly, reads[1])
    /\ UNCHANGED <<currentLang, now, toolVars>>

\* Timeouts handed to fetchWithTimeout: the default and values around the
\* rounding to whole seconds
SampleTimeouts == {REQUEST_TIMEOUT_MS, 400, 1499, 1500, 2000}

\* What fetch can reject with for another reason than the abort
FetchErrors ==
    { [name |-> "TypeError", message |-> <<"fetch failed">>],
      [name |-> "Error", message |-> <<"unable to connect">>] }

SampleResponses == { [status |-> 200], [status |-> 401] }

FetchRunning == call.fn = "fetchWithTimeout" /\ ~call.settled

\* fetchWithTimeout is called: the timer is armed and the request sent (lines
\* 127-134)
CallFetchWithTimeout ==
    /\ call = NoCall
    /\ \E timeoutMs \in SampleTimeouts :
        call' = [fn |-> "fetchWithTimeout", timeoutMs |-> timeoutMs,
                 timer |-> "armed", request |-> "inflight", settled |-> FALSE,
                 thrown |-> AbortError]
    /\ ret' = <<>>
    /\ UNCHANGED <<currentLang, now, toolVars>>

\* The timer fires, whenever it is armed: controller.abort() (line 128) aborts
\* the request if it is still in flight
TimerFires ==
    /\ call.fn = "fetchWithTimeout"
    /\ call.timer = "armed"
    /\ call' = [call EXCEPT !.timer = "fired",
                            !.request = IF @ = "inflight" THEN "aborted" ELSE @]
    /\ UNCHANGED <<currentLang, now, ret, toolVars>>

\* The request is answered: the response is returned through the finally
\* block (lines 135, 141-143)
ResponseArrives ==
    /\ FetchRunning
    /\ call.request = "inflight"
    /\ \E response \in SampleResponses :
        ret' = [kind |-> "return", response |-> response]
    /\ call' = [call EXCEPT !.request = "answered", !.timer = clearTimeout(@),
                            !.settled = TRUE]
    /\ UNCHANGED <<currentLang, now, toolVars>>

\* The request fails for a reason of its own: the error goes through the
\* catch and the finally block (lines 136-143)
RequestFails ==
    /\ FetchRunning
    /\ call.request = "inflight"
    /\ \E err \in FetchErrors :
        /\ ret' = [kind |-> "throw", error |-> fetchWithTimeoutCatch(err, call.timeoutMs)]
        /\ call' = [call EXCEPT !.request = "failed", !.timer = clearTimeout(@),
                                !.settled = TRUE, !.thrown = err]
    /\ UNCHANGED <<currentLang, now, toolVars>>

\* The aborted request rejects with the AbortError, which goes through the
\* catch and the finally block (lines 136-143)
AbortSurfaces ==
    /\ FetchRunning
    /\ call.request = "aborted"
    /\ ret' = [kind |-> "throw", error |-> fetchWithTimeoutCatch(AbortError, call.timeoutMs)]
    /\ call' = [call EXCEPT !.timer = clearTimeout(@), !.settled = TRUE]
    /\ UNCHANGED <<currentLang, now, toolVars>>

InitFn ==
    /\ currentLang \in Languages
    /\ now = StartTime
    /\ call = NoCall
    /\ ret = <<>>
    /\ authFile = NoAuthFile
    /\ authData = <<>>
    /\ pc = "fn"
    /\ queries = <<>>
    /\ task = [p \in Providers |-> NoTask]
    /\ output = <<>>
    /\ events = <<>>
    /\ upstream = NoUpstream

NextFn ==
    \/ CallMaskString
    \/ CallCreateProgressBar
    \/ CallCalcRemainPercent
    \/ CallOpenAIUsageResult
    \/ CallMiniMaxUsageResult
    \/ CallAnthropicUsageResult
    \/ CallFormatDuration
    \/ CallFormatResetTime
    \/ CallFormatWindowName
    \/ CallFetchWithTimeout
    \/ TimerFires
    \/ ResponseArrives
    \/ RequestFails
    \/ AbortSurfaces

SpecFn == InitFn /\ [][NextFn]_vars

-----------------------------------------------------------------------------
(* One invocation of the mystatus tool *)

\* Secrets of the credential store and of the token endpoint
LongKey == <<"K">> \o Secret(19)
ShortKey == <<"S">> \o Secret(7)
AccessToken == <<"A">> \o Secret(19)
RefreshToken == <<"R">> \o Secret(19)
NewAccessToken == <<"N">> \o Secret(19)

SampleJwt == [segments |-> 3, email |-> SampleEmail]

\* authData.openai: absent; a record of another type; an OAuth record that
\* expired one millisecond before the run began, or expires at the instant
\* it begins
OpenAICreds ==
    { <<>>, << [type |-> "api", access |-> <<>>, expires |-> <<>>] >> }
    \cup { << [type |-> "oauth", access |-> <<SampleJwt>>, expires |-> <<e>>] >> :
            e \in {StartTime - 1, StartTime} }

\* authData.openai, further records: an OAuth record without access token,
\* without expires, with expires 0, with an expiry ahead of the run
OpenAIEdgeCreds ==
    { << [type |-> "oauth", access |-> <<>>, expires |-> <<StartTime - 1>>] >> }
    \cup { << [type |-> "oauth", access |-> <<SampleJwt>>, expires |-> e] >> :
            e \in { <<>>, <<0>>, <<StartTime + MaxDrift + 1>> } }

MiniMaxCred(key) == [type |-> "api", key |-> key]

\* authData["minimax-coding-plan"] and authData.minimax
MiniMaxCreds ==
    { << <<>>, <<>> >>,
      << <<MiniMaxCred(LongKey)>>, <<>> >>,
      << <<MiniMaxCred(<<>>)>>, <<>> >> }

\* Further records: the key under the alias, alone, beside the main key and
\* beside a main record without key; a record without key under the alias
MiniMaxEdgeCreds ==
    { << <<>>, <<MiniMaxCred(ShortKey)>> >>,
      << <<MiniMaxCred(LongKey)>>, <<MiniMaxCred(ShortKey)>> >>,
      << <<MiniMaxCred(<<>>)>>, <<MiniMaxCred(ShortKey)>> >>,
      << <<>>, <<MiniMaxCred(<<>>)>> >> }

CopilotCreds == { <<>>, << [type |-> "oauth"] >> }

\* authData.anthropic: absent; without access token; with an access token,
\* a refresh token and an expiry in the past
AnthropicCreds ==
    { <<>>,
      << [access |-> <<>>, refresh |-> <<>>, expires |-> <<>>] >>,
      << [access |-> AccessToken, refresh |-> RefreshToken,
          expires |-> <<StartTime - 1>>] >> }

\* authData.anthropic, further records: an expiry in the past without refresh
\* token; with a refresh token and expires 0, no expires, an expiry at the
\* instant the run begins, an expiry ahead of the run
AnthropicEdgeCreds ==
    { << [access |-> AccessToken, refresh |-> <<>>, expires |-> <<StartTime - 1>>] >> }
    \cup { << [access |-> AccessToken, refresh |-> RefreshToken, expires |-> e] >> :
            e \in { <<>>, <<0>>, <<StartTime>>, <<StartTime + MaxDrift + 1>> } }

AuthData(o, m, c, a) ==
    [openai |-> o, minimaxCodingPlan |-> m[1], minimax |-> m[2],
     githubCopilot |-> c, anthropic |-> a]

\* What reading and parsing auth.json gives: an error of readFile, a text
\* that is not JSON, the JSON value null, an object.  The further records of
\* a provider stand alone in the store.
AuthFiles ==
    { AuthFile(k, <<>>) : k \in {"unreadable", "malformed", "null"} }
    \cup
    { AuthFile("object", AuthData(o, m, c, a)) :
        o \in OpenAICreds, m \in MiniMaxCreds, c \in CopilotCreds,
        a \in AnthropicCreds }
    \cup
    { AuthFile("object", AuthData(o, << <<>>, <<>> >>, <<>>, <<>>)) :
        o \in OpenAIEdgeCreds }
    \cup
    { AuthFile("object", AuthData(<<>>, m, <<>>, <<>>)) : m \in MiniMaxEdgeCreds }
    \cup
    { AuthFile("object", AuthData(<<>>, << <<>>, <<>> >>, <<>>, a)) :
        a \in AnthropicEdgeCreds }

\* What the usage request of the OpenAI adapter meets: a timeout, a network
\* error, a non-2xx status, a body that is not JSON, a body without
\* rate_limit, a usage body
OpenAIOutcomes ==
    { [kind |-> "timeout"], [kind |-> "network"], [kind |-> "badjson"],
      [kind |-> "status", status |-> 401, text |-> <<"Unauthorized">>] }
    \cup
    { [kind |-> "ok", usage |-> u] :
        u \in { [plan_type |-> SamplePlan, rate_limit |-> <<>>],
                [plan_type |-> SamplePlan,
                 rate_limit |-> << [limit_reached |-> FALSE,
                                    primary_window |-> << Window(<<15, 1>>, 18000, 9000) >>,
                                    secondary_window |-> << Window(<<40, 1>>, 604800, 90061) >>] >>] } }

\* What the curl command of the MiniMax adapter meets: a failure of the
\* command, an output that is not JSON, a non-zero status code, a JSON body
\* without base_resp, a usage body
MiniMaxOutcomes ==
    { [kind |-> "exec"],
      [kind |-> "badjson", stdout |-> <<"<html>">>],
      [kind |-> "status", status |-> 1004, text |-> <<"login fail">>],
      [kind |-> "shape"],
      [kind |-> "ok",
       usage |-> [base_resp |-> OkBaseResp,
                  model_remains |-> << ModelRemain(5000, 1000, 0) >>,
                  data |-> <<>>]] }

\* What the token request of the Anthropic adapter meets: a failure or a
\* non-2xx answer, a new access token
TokenOutcomes ==
    { [kind |-> "status"], [kind |-> "ok", access_token |-> NewAccessToken] }

\* What the usage request of the Anthropic adapter meets: a timeout, a
\* non-2xx status, a usage body with both windows
ClaudeOutcomes ==
    { [kind |-> "timeout"], [kind |-> "status"],
      [kind |-> "ok",
       usage |-> [five_hour |-> << ClaudeWindow(<<25, 1>>, <<>>) >>,
                  seven_day |-> << ClaudeWindow(<<40, 1>>, <<>>) >>]] }

Init ==
    /\ currentLang \in Languages
    /\ now = StartTime
    /\ call = NoCall
    /\ ret = <<>>
    /\ authFile \in AuthFiles
    /\ authData = <<>>
    /\ pc = "idle"
    /\ queries = <<>>
    /\ task = [p \in Providers |-> NoTask]
    /\ output = <<>>
    /\ events = <<>>
    /\ upstream = NoUpstream

\* The host calls the tool: execute runs to the await of readFile
Execute ==
    /\ pc = "idle"
    /\ pc' = "reading"
    /\ UNCHANGED <<currentLang, now, call, ret, authFile, authData, queries,
                   task, output, events, upstream>>

\* readFile rejects, or JSON.parse throws: execute returns the auth error
\* (lines 597-605)
ReadAuthFails ==
    /\ pc = "reading"
    /\ authFile.kind \in {"unreadable", "malformed"}
    /\ output' = authError(authPath,
                           IF authFile.kind = "unreadable"
                           THEN <<"ENOENT: no such file or directory">>
                           ELSE JsonSyntaxError)
    /\ pc' = "done"
    /\ UNCHANGED <<currentLang, now, call, ret, authFile, authData, queries,
                   task, events, upstream>>

\* auth.json holds the JSON value null: authData.openai at line 615 throws
\* outside any try block and the promise of execute is rejected
ReadAuthNull ==
    /\ pc = "reading"
    /\ authFile.kind = "null"
    /\ pc' = "rejected"
    /\ UNCHANGED <<currentLang, now, call, ret, authFile, authData, queries,
                   task, output, events, upstream>>

\* auth.json is read and parsed: execute starts the adapter of every
\* configured provider, each running to its first await, and awaits them all
\* (lines 607-653)
BuildQueries ==
    /\ pc = "reading"
    /\ authFile.kind = "object"
    /\ authData' = << authFile.data >>
    /\ queries' = queriesOf(authFile.data)
    /\ \E reads \in ClockReads(2) :
        /\ task' = startQueries(authFile.data, reads)
        /\ now' = reads[2]
    /\ events' = startEvents(1, queries', task')
    /\ pc' = "querying"
    /\ UNCHANGED <<currentLang, call, ret, authFile, output, upstream>>

\* The request of the OpenAI adapter settles
OpenAISettles ==
    /\ pc = "querying"
    /\ task["openai"].st = "pending"
    /\ \E outcome \in OpenAIOutcomes, reads \in ClockReads(2) :
        /\ task' = [task EXCEPT !["openai"] =
                      Settled(@, << openAIQueryResult(outcome, @.email, reads) >>)]
        /\ now' = IF outcome.kind = "ok" THEN reads[2] ELSE now
        /\ upstream' = [upstream EXCEPT !["openai"] = outcome.kind]
    /\ UNCHANGED <<currentLang, call, ret, authFile, authData, pc, queries,
                   output, events>>

\* The curl command of the MiniMax adapter ends
MiniMaxSettles ==
    /\ pc = "querying"
    /\ task["minimax"].st = "pending"
    /\ \E outcome \in MiniMaxOutcomes, reads \in ClockReads(5) :
        /\ task' = [task EXCEPT !["minimax"] =
                      Settled(@, << miniMaxQueryResult(outcome, @.secret, reads) >>)]
        /\ now' = IF outcome.kind = "ok" THEN reads[5] ELSE now
        /\ upstream' = [upstream EXCEPT !["minimax"] = outcome.kind]
    /\ UNCHANGED <<currentLang, call, ret, authFile, authData, pc, queries,
                   output, events>>

\* The Copilot adapter settles
CopilotSettles ==
    /\ pc = "querying"
    /\ task["copilot"].st = "pending"
    /\ \E result \in queryCopilotUsage :
        task' = [task EXCEPT !["copilot"] = Settled(@, result)]
    /\ UNCHANGED <<currentLang, now, call, ret, authFile, authData, pc, queries,
                   output, events, upstream>>

\* A refresh that writes the new token into the credential record, to show
\* that C15 depends on the token being kept in a local variable
AnthropicRefreshSettlesStoring ==
    /\ pc = "querying"
    /\ task["anthropic"].st = "refreshing"
    /\ \E outcome \in TokenOutcomes :
        /\ task' = [task EXCEPT !["anthropic"] =
                      afterRefresh(@, refreshAccessToken(outcome))]
        /\ authData' = IF refreshAccessToken(outcome) = <<>> THEN authData
                       ELSE << [authData[1] EXCEPT !.anthropic[1].access =
                                   refreshAccessToken(outcome)[1]] >>
        /\ upstream' = [upstream EXCEPT !["token"] = outcome.kind]
    /\ events' = Append(events, ClaudeUsageRequest)
    /\ UNCHANGED <<currentLang, now, call, ret, authFile, pc, queries, output>>

\* refreshAccessToken returns a new token or null, and queryAnthropicUsage
\* goes on to its usage request (lines 524-532)
AnthropicRefreshSettles ==
    /\ pc = "querying"
    /\ task["anthropic"].st = "refreshing"
    /\ \E outcome \in TokenOutcomes :
        /\ task' = [task EXCEPT !["anthropic"] =
                      afterRefresh(@, refreshAccessToken(outcome))]
        /\ upstream' = [upstream EXCEPT !["token"] = outcome.kind]
    /\ events' = Append(events, ClaudeUsageRequest)
    /\ UNCHANGED <<currentLang, now, call, ret, authFile, authData, pc, queries,
                   output>>

\* fetchClaudeUsage returns
AnthropicSettles ==
    /\ pc = "querying"
    /\ task["anthropic"].st = "pending"
    /\ \E outcome \in ClaudeOutcomes, reads \in ClockReads(10) :
        /\ task' = [task EXCEPT !["anthropic"] =
                      Settled(@, << anthropicUsageResult(fetchClaudeUsage(outcome),
                                                         @.secret, reads) >>)]
        /\ now' = IF outcome.kind = "ok" THEN reads[10] ELSE now
        /\ upstream' = [upstream EXCEPT !["anthropic"] = outcome.kind]
    /\ UNCHANGED <<currentLang, call, ret, authFile, authData, pc, queries,
                   output, events>>

\* The adapters whose requests go through fetchWithTimeout and whose bodies
\* are read afterwards with response.json() or response.text()
FetchingProviders == {"openai", "anthropic"}

\* The headers of the answer to a request of the OpenAI or of the Anthropic
\* adapter arrive in time, so that fetchWithTimeout returns the response and
\* disarms its timer, and the body that response.json() or response.text()
\* then awaits is never delivered: the adapter stays at that await
BodyStalls ==
    /\ pc = "querying"
    /\ \E p \in FetchingProviders :
        /\ task[p].st \in {"pending", "refreshing"}
        /\ task' = [task EXCEPT ![p].st = "stalled"]
    /\ UNCHANGED <<currentLang, now, call, ret, authFile, authData, pc, queries,
                   output, events, upstream>>

\* An aggregator that goes on as soon as one adapter has settled, to show
\* that C19 depends on Promise.all waiting for all of them
CollectEarly ==
    /\ pc = "querying"
    /\ \/ queries = <<>>
       \/ \E i \in 1..Len(queries) : task[queries[i]].st = "settled"
    /\ output' = aggregateOutput(collectFrom(1, queries, task, NoResults))
    /\ pc' = "done"
    /\ UNCHANGED <<currentLang, now, call, ret, authFile, authData, queries,
                   task, events, upstream>>

\* Promise.all settles: when every adapter call has resolved, execute
\* collects the results and returns the output (lines 653-690); when one has
\* rejected, the await throws outside any try block and execute is rejected
Collect ==
    /\ pc = "querying"
    /\ \/ \E i \in 1..Len(queries) : task[queries[i]].st = "rejected"
       \/ \A i \in 1..Len(queries) : task[queries[i]].st = "settled"
    /\ IF \E i \in 1..Len(queries) : task[queries[i]].st = "rejected"
       THEN pc' = "rejected" /\ output' = output
       ELSE /\ output' = aggregateOutput(collectFrom(1, queries, task, NoResults))
            /\ pc' = "done"
    /\ UNCHANGED <<currentLang, now, call, ret, authFile, authData, queries,
                   task, events, upstream>>

Next ==
    \/ Execute
    \/ ReadAuthFails
    \/ ReadAuthNull
    \/ BuildQueries
    \/ OpenAISettles
    \/ MiniMaxSettles
    \/ CopilotSettles
    \/ AnthropicRefreshSettles
    \/ AnthropicSettles
    \/ BodyStalls
    \/ Collect

Spec == Init /\ [][Next]_vars

\* The event loop runs every continuation that is ready, and every request
\* that is going to settle does settle
SpecLive == Spec /\ WF_vars(Next)

-----------------------------------------------------------------------------
(* Helpers of the properties *)

\* needle occurs in text as a run of consecutive atoms
IsInfix(needle, text) ==
    \/ needle = <<>>
    \/ \E i \in 1..(Len(text) - Len(needle) + 1) :
        /\ text[i] = needle[1]
        /\ SubSeq(text, i, i + Len(needle) - 1) = needle

\* r is x = n/d rounded to the nearest integer, a tie going up
IsRounded(r, x) ==
    /\ (2 * r - 1) * x[2] <= 2 * x[1]
    /\ 2 * x[1] < (2 * r + 1) * x[2]

\* The value of a decimal digit, of a run of digits
DigitVal(c) == CHOOSE d \in 0..9 : Digits[d + 1] = c

RECURSIVE ParseNat(_)
ParseNat(s) ==
    IF s = <<>> THEN 0
    ELSE 10 * ParseNat(SubSeq(s, 1, Len(s) - 1)) + DigitVal(s[Len(s)])

\* The number, in halves, that a percentage cell such as "15.5%" or "-1%"
\* denotes (the fraction digit of the cells met here is 5)
CellHalves(cell) ==
    LET body == SubSeq(cell, 1, Len(cell) - 1)
        neg == body # <<>> /\ body[1] = "-"
        mag == IF neg THEN Tail(body) ELSE body
        frac == Len(mag) > 2 /\ mag[Len(mag) - 1] = "."
        halves == IF frac
                  THEN 2 * ParseNat(SubSeq(mag, 1, Len(mag) - 2))
                       + (DigitVal(mag[Len(mag)]) \div 5)
                  ELSE 2 * ParseNat(mag)
    IN  IF neg THEN 0 - halves ELSE halves

\* The largest percentage, in absolute value, a MiniMax row can show
MaxShownPercent == 100 * (MaxTotal + 2)

-----------------------------------------------------------------------------
(* Properties of the tool, checked under Spec *)

\* The runs of atoms of a text between the occurrences of a separator, in
\* order, from a position on
RECURSIVE SplitFrom(_, _, _)
SplitFrom(text, sep, from) ==
    LET k == PosOf(text, sep, from)
    IN  IF k = 0 THEN << SubSeq(text, from, Len(text)) >>
        ELSE << SubSeq(text, from, k - 1) >> \o SplitFrom(text, sep, k + 1)

\* The lines of a text that begin with a pipe
TableLines(text) ==
    LET lines == SplitFrom(text, "\n", 1)
    IN  { lines[i] : i \in { k \in 1..Len(lines) :
                              lines[k] # <<>> /\ lines[k][1] = "|" } }

\* The cells of a line of the table, in order: the runs of atoms between pipes
Cells(line) == SplitFrom(line, "|", 1)

RECURSIVE TrimEnd(_)
TrimEnd(s) ==
    IF s # <<>> /\ s[Len(s)] = " " THEN TrimEnd(SubSeq(s, 1, Len(s) - 1)) ELSE s

\* The table lines of a text, each as its seven cells without their padding
TableRowsOf(text) ==
    { [i \in 1..Len(Columns) |-> TrimEnd(cells[i + 1])] :
        cells \in { Cells(line) : line \in TableLines(text) } }

RowCells(row) == [i \in 1..Len(Columns) |-> row[Columns[i]]]

RowPresent(row, text) == RowCells(row) \in TableRowsOf(text)

\* The rows of the adapters that succeeded
RowsOfSuccesses ==
    UNION { { RowCells(task[p].result[1].tableRows[i]) :
                i \in 1..Len(task[p].result[1].tableRows) } :
            p \in { q \in Providers : task[q].result # <<>> /\ task[q].result[1].success } }

ProviderName(p) ==
    CASE p = "openai" -> <<"OpenAI">>
      [] p = "minimax" -> <<"MiniMax">>
      [] p = "copilot" -> <<"GitHub Copilot">>
      [] p = "anthropic" -> <<"Anthropic">>

Succeeded(p) == task[p].result # <<>> /\ task[p].result[1].success
Failed(p) == task[p].result # <<>> /\ ~task[p].result[1].success

\* execute has returned what it aggregated from the settled adapters
Aggregated == pc = "done" /\ authData # <<>>

\* The OpenAI credential expired one millisecond before the run began
OpenAIJustExpired ==
    /\ authData # <<>>
    /\ authData[1].openai # <<>>
    /\ authData[1].openai[1].type = "oauth"
    /\ authData[1].openai[1].expires = <<StartTime - 1>>

\* C1: when an adapter fails (expired token, timeout, non-2xx status,
\* unparsable body), every row of every adapter that succeeded is still in
\* the returned string, and the failing provider contributes its error
\* message and no row; an OpenAI credential that expired one millisecond ago
\* gives the expired-token message and no OpenAI row.
C1_FailureIsolation ==
    (Aggregated /\ \E p \in Providers : Failed(p)) =>
        LET shown == TableRowsOf(output)
        IN
        /\ RowsOfSuccesses \subseteq shown
        /\ \A p \in Providers : Failed(p) =>
            /\ task[p].result[1].error # <<>>
            /\ IsInfix(task[p].result[1].error, output)
            /\ \A cells \in shown : cells[1] # ProviderName(p)
        /\ OpenAIJustExpired =>
            /\ Failed("openai")
            /\ IsInfix(t.tokenExpired, output)

C1_Witness ==
    /\ Aggregated
    /\ OpenAIJustExpired
    /\ IsInfix(t.tokenExpired, output)
    /\ Succeeded("minimax")
    /\ Succeeded("anthropic")
    /\ RowPresent(task["minimax"].result[1].tableRows[1], output)
    /\ RowPresent(task["anthropic"].result[1].tableRows[2], output)
    /\ \A cells \in TableRowsOf(output) : cells[1] # <<"OpenAI">>

\* A settled adapter succeeded with at least one row
SomeRows ==
    \E p \in Providers : Succeeded(p) /\ Len(task[p].result[1].tableRows) > 0

\* C2 as stated: whenever a settled result is a success with rows, the
\* returned string is the table with all the rows of the successes, also when
\* that success has rows and no legacy text; the 'no accounts' message is not
\* returned.
C2_RowsRendered_AsStated ==
    (Aggregated /\ SomeRows) =>
        /\ output # t.noAccounts
        /\ IsInfix(t.tableTitle, output)
        /\ RowsOfSuccesses \subseteq TableRowsOf(output)

\* None of the keys openai, minimax-coding-plan, minimax, github-copilot,
\* anthropic is in the credential store
NoKeys ==
    /\ authData # <<>>
    /\ authData[1].openai = <<>>
    /\ authData[1].minimaxCodingPlan = <<>>
    /\ authData[1].minimax = <<>>
    /\ authData[1].githubCopilot = <<>>
    /\ authData[1].anthropic = <<>>

\* C3: with none of the five keys in the credential store no adapter is
\* invoked and the returned string is exactly the 'no accounts configured'
\* message of the language.
C3_NoAccounts ==
    NoKeys =>
        /\ queries = <<>>
        /\ \A p \in Providers : task[p] = NoTask
        /\ pc = "done" => output = t.noAccounts

C3_Witness ==
    /\ NoKeys
    /\ pc = "done"
    /\ currentLang = "vi"
    /\ output = translations["vi"].noAccounts

\* C9 as stated: the MiniMax API key and the Anthropic access token, original
\* or refreshed, never appear in full in the string the tool returns,
\* whatever their length.
C9_SecretsMasked_AsStated ==
    pc = "done" =>
        \A secret \in {LongKey, ShortKey, AccessToken, NewAccessToken} :
            ~IsInfix(secret, output)

-----------------------------------------------------------------------------
(* Properties of the functions, checked under SpecFn *)

OpenAICall == call.fn = "openAIUsageResult"
MiniMaxCall == call.fn = "miniMaxUsageResult"
AnthropicCall == call.fn = "anthropicUsageResult"

OpenAIPrimaryRowShape ==
    LET w == primaryOf(call.usage)[1]
        p == w.used_percent
        rows == ret.tableRows
    IN  /\ ret.success
        /\ Len(rows) = 1
        /\ rows[1].provider = <<"OpenAI">>
        /\ rows[1].used = NumText(p) \o <<"%">>
        /\ \E r \in (0 - 2)..101 :
            /\ IsRounded(r, <<100 * p[2] - p[1], p[2]>>)
            /\ rows[1].remaining = IntText(r) \o <<"%">>
        /\ w.reset_after_seconds > 0 =>
            rows[1].resetIn = formatDuration(w.reset_after_seconds)
        /\ secondaryOf(call.usage) # <<>> =>
            IsInfix(Join(formatWindow(secondaryOf(call.usage)[1]), <<"\n">>), ret.output)

OpenAIExampleCase ==
    /\ OpenAICall
    /\ primaryOf(call.usage) # <<>>
    /\ primaryOf(call.usage)[1].used_percent = <<15, 1>>
    /\ primaryOf(call.usage)[1].reset_after_seconds = 9000

ClaudeWindowsPresent(data) ==
    (IF data.five_hour # <<>>
     THEN << [w |-> data.five_hour[1], plan |-> <<"Claude Pro (5h)">>] >> ELSE <<>>)
    \o
    (IF data.seven_day # <<>>
     THEN << [w |-> data.seven_day[1], plan |-> <<"Claude Pro (7d)">>] >> ELSE <<>>)

\* C5: a successful Anthropic usage response gives one row per window present
\* among five_hour and seven_day, five-hour first, provider 'Anthropic', plans
\* 'Claude Pro (5h)' and 'Claude Pro (7d)', used = round(utilization) and
\* remaining = 100 - round(utilization); utilizations 25 and 40 give exactly
\* two rows.
C5_AnthropicRows ==
    (AnthropicCall /\ call.usage # <<>>) =>
        LET wins == ClaudeWindowsPresent(call.usage[1])
            rows == ret.tableRows
        IN  /\ ret.success
            /\ Len(rows) = Len(wins)
            /\ \A i \in 1..Len(wins) :
                /\ rows[i].provider = <<"Anthropic">>
                /\ rows[i].plan = wins[i].plan
                /\ \E u \in 0..(MaxUsedHalves + 2) :
                    /\ IsRounded(u, wins[i].w.utilization)
                    /\ rows[i].used = IntText(u) \o <<"%">>
                    /\ rows[i].remaining = IntText(100 - u) \o <<"%">>

C5_Witness ==
    /\ AnthropicCall
    /\ call.usage # <<>>
    /\ call.usage[1].five_hour # <<>>
    /\ call.usage[1].seven_day # <<>>
    /\ QEq(call.usage[1].five_hour[1].utilization, QInt(25))
    /\ QEq(call.usage[1].seven_day[1].utilization, QInt(40))
    /\ Len(ret.tableRows) = 2
    /\ ret.tableRows[1].plan = <<"Claude Pro (5h)">>
    /\ ret.tableRows[2].plan = <<"Claude Pro (7d)">>
    /\ ret.tableRows[1].used = <<"2", "5", "%">>
    /\ ret.tableRows[2].remaining = <<"6", "0", "%">>

\* C6: for a per-model entry with total T > 0 and usage U the MiniMax row has
\* used = round(100 - 100*U/T)% and remaining = round(100*U/T)% (T = 5000,
\* U = 1000: '80%' and '20%'); the rows of OpenAI and Anthropic are not
\* inverted: their used field is the usage the provider reports.
C6_MiniMaxInversion ==
    /\ (MiniMaxCall /\ call.usage.model_remains # <<>>
          /\ call.usage.model_remains[1].current_interval_total_count > 0) =>
        LET e == call.usage.model_remains[1]
            tt == e.current_interval_total_count
            u == e.current_interval_usage_count
            rows == ret.tableRows
        IN  /\ Len(rows) = 1
            /\ rows[1].provider = <<"MiniMax">>
            /\ \E a \in (0 - MaxShownPercent)..MaxShownPercent :
                /\ IsRounded(a, <<100 * tt - 100 * u, tt>>)
                /\ rows[1].used = IntText(a) \o <<"%">>
            /\ \E b \in (0 - MaxShownPercent)..MaxShownPercent :
                /\ IsRounded(b, <<100 * u, tt>>)
                /\ rows[1].remaining = IntText(b) \o <<"%">>
            /\ (tt = 5000 /\ u = 1000) =>
                /\ rows[1].used = <<"8", "0", "%">>
                /\ rows[1].remaining = <<"2", "0", "%">>
    /\ (OpenAICall /\ primaryOf(call.usage) # <<>>) =>
        ret.tableRows[1].used = NumText(primaryOf(call.usage)[1].used_percent) \o <<"%">>
    /\ (AnthropicCall /\ call.usage # <<>>) =>
        \A i \in 1..Len(ret.tableRows) :
            \E u \in 0..(MaxUsedHalves + 2) :
                /\ IsRounded(u, ClaudeWindowsPresent(call.usage[1])[i].w.utilization)
                /\ ret.tableRows[i].used = IntText(u) \o <<"%">>

C6_Witness ==
    /\ MiniMaxCall
    /\ call.usage.model_remains # <<>>
    /\ call.usage.model_remains[1].current_interval_total_count = 5000
    /\ call.usage.model_remains[1].current_interval_usage_count = 1000
    /\ ret.tableRows[1].used = <<"8", "0", "%">>
    /\ ret.tableRows[1].remaining = <<"2", "0", "%">>

\* The rows that OpenAI and Anthropic calls return, and what a call of
\* calcRemainPercent relates, as <<used, remaining>> cells
ComplementCells ==
    IF (OpenAICall \/ AnthropicCall) /\ ret.success
    THEN { <<ret.tableRows[i].used, ret.tableRows[i].remaining>> :
              i \in 1..Len(ret.tableRows) }
    ELSE IF call.fn = "calcRemainPercent"
    THEN { <<NumText(call.usedPercent) \o <<"%">>, IntText(ret) \o <<"%">>>> }
    ELSE {}

\* C7 as stated: in every OpenAI and Anthropic row the numbers in used and
\* remaining add up to 100, for integer and fractional usage alike, and
\* calcRemainPercent(p) + p = 100.
C7_Complementary_AsStated ==
    \A c \in ComplementCells :
        CellHalves(c[1]) + CellHalves(c[2]) = 200

\* C7 (amended): the numbers in used and remaining add up to exactly 100
\* when the reported usage is an integer, and in every Anthropic row (the
\* utilization is rounded before both fields are derived); for a fractional
\* OpenAI used_percent p the sum is round(100 - p) + p, which is not 100 but
\* lies in (99.5, 100.5], and the same holds of calcRemainPercent(p) + p.
C7_Complementary ==
    /\ \A c \in ComplementCells :
        LET h == CellHalves(c[1])
            r2 == CellHalves(c[2])
        IN  /\ h % 2 = 0 => h + r2 = 200
            /\ 199 < h + r2 /\ h + r2 <= 201
    /\ (AnthropicCall /\ ret.success) =>
        \A i \in 1..Len(ret.tableRows) :
            CellHalves(ret.tableRows[i].used)
                + CellHalves(ret.tableRows[i].remaining) = 200

C7_Witness ==
    /\ OpenAICall
    /\ primaryOf(call.usage) # <<>>
    /\ primaryOf(call.usage)[1].used_percent = <<31, 2>>
    /\ ret.tableRows[1].used = <<"1", "5", ".", "5", "%">>
    /\ ret.tableRows[1].remaining = <<"8", "5", "%">>

\* C8 as stated: maskString(s, n) is s when len(s) <= 2n; otherwise it has
\* length 2n + 4, begins with the first n characters of s, ends with the last
\* n, with '****' between, for every non-negative n.
C8_MaskString_AsStated ==
    call.fn = "maskString" =>
        LET str == call.str
            n == call.showChars
        IN  IF Len(str) <= 2 * n THEN ret = str
            ELSE /\ Len(ret) = 2 * n + 4
                 /\ SubSeq(ret, 1, n) = SubSeq(str, 1, n)
                 /\ SubSeq(ret, n + 1, n + 4) = Stars
                 /\ SubSeq(ret, n + 5, 2 * n + 4) = SubSeq(str, Len(str) - n + 1, Len(str))

\* C10: createProgressBar returns exactly w characters, f filled blocks then
\* w - f light blocks, f = round(clamp(remainPercent, 0, 100) / 100 * w);
\* 0% is all light, 100% all filled, and 0 <= f <= w for inputs out of range.
C10_ProgressBar ==
    call.fn = "createProgressBar" =>
        LET rp == call.remainPercent
            w == call.width
            c == IF QLt(rp, QInt(0)) THEN QInt(0)
                 ELSE IF QLt(QInt(100), rp) THEN QInt(100) ELSE rp
        IN  /\ Len(ret) = w
            /\ \E f \in 0..w :
                /\ IsRounded(f, <<c[1] * w, c[2] * 100>>)
                /\ \A i \in 1..w : ret[i] = IF i <= f THEN FilledChar ELSE EmptyChar
            /\ rp[1] = 0 => \A i \in 1..w : ret[i] = EmptyChar
            /\ rp[1] = 100 * rp[2] => \A i \in 1..w : ret[i] = FilledChar

C10_Witness ==
    /\ call.fn = "createProgressBar"
    /\ call.remainPercent = <<210, 2>>
    /\ call.width = DefaultBarWidth
    /\ ret = Repeat(FilledChar, DefaultBarWidth)

-----------------------------------------------------------------------------
(* Properties of formatResetTime and formatDuration, checked under SpecFn *)

IsDigit(c) == \E k \in 1..10 : Digits[k] = c

\* The parts of a rendered duration, in order, each as <<unit, number>>: a
\* part is a run of digits and the atom after it; spaces are skipped
RECURSIVE PartsFrom(_, _, _)
PartsFrom(text, i, digits) ==
    IF i > Len(text) THEN (IF digits = <<>> THEN <<>> ELSE << <<"", ParseNat(digits)>> >>)
    ELSE IF text[i] = " " THEN PartsFrom(text, i + 1, digits)
    ELSE IF IsDigit(text[i]) THEN PartsFrom(text, i + 1, Append(digits, text[i]))
    ELSE << <<text[i], IF digits = <<>> THEN 0 - 1 ELSE ParseNat(digits)>> >>
         \o PartsFrom(text, i + 1, <<>>)

DurationParts(text) == PartsFrom(text, 1, <<>>)

\* The unit letters of the language
DayUnit == IF currentLang = "en" THEN "d" ELSE "ngay"
HourUnit == IF currentLang = "en" THEN "h" ELSE "gio"
MinuteUnit == IF currentLang = "en" THEN "m" ELSE "phut"

UnitSeconds(u) ==
    IF u = DayUnit THEN 86400 ELSE IF u = HourUnit THEN 3600
    ELSE IF u = MinuteUnit THEN 60 ELSE 0

RECURSIVE PartsSeconds(_)
PartsSeconds(parts) ==
    IF parts = <<>> THEN 0
    ELSE UnitSeconds(parts[1][1]) * parts[1][2] + PartsSeconds(Tail(parts))

\* Every part is a non-negative number of days, hours or minutes
WellFormedParts(parts) ==
    \A k \in 1..Len(parts) :
        /\ parts[k][1] \in {DayUnit, HourUnit, MinuteUnit}
        /\ parts[k][2] >= 0

\* No minus sign stands before a digit
NoNegativeNumber(text) ==
    \A k \in 1..(Len(text) - 1) : text[k] = "-" => ~IsDigit(text[k + 1])

\* The countdown of a full reset sentence: the atoms between "Resets in:" and
\* the parenthesis
CountdownOf(text) ==
    LET open == PosOf(text, "(", 1)
    IN  IF Len(text) < 2 \/ text[1] # "Resets in:" \/ open = 0 THEN << "?" >>
        ELSE SubSeq(text, 2, open - 1)

FormatResetTimeCall == call.fn = "formatResetTime"

\* The rendering of a reset instant ahead of the clock that shows only the
\* date
IsDateRendering(text) ==
    /\ Len(text) > 8
    /\ text[3] = ":"
    /\ SubSeq(text, 6, 8) = <<" ", "-", " ">>
    /\ ~IsInfix(<<"Resets in:">>, text)

\* The rendering of a reset instant ahead of the clock with its countdown: a
\* well-formed duration within a minute below the whole seconds left
IsCountdownRendering(text, secondsLeft) ==
    LET parts == DurationParts(CountdownOf(text))
    IN  /\ secondsLeft >= 0
        /\ parts # <<>>
        /\ WellFormedParts(parts)
        /\ PartsSeconds(parts) <= secondsLeft
        /\ secondsLeft - PartsSeconds(parts) < 60

\* C11 as stated: formatResetTime returns 'Resets now' whenever ts <= now, for
\* both values of dateOnly, and otherwise (for both values of dateOnly)
\* formats a countdown computed from floor((ts - now) / 1000) >= 0 seconds; it
\* never renders a negative duration.
C11_ResetTime_AsStated ==
    FormatResetTimeCall =>
        LET left == call.resetTimestamp - call.clock
        IN  /\ left <= 0 => ret = ResetsNow
            /\ left > 0 => IsCountdownRendering(ret, left \div 1000)
            /\ NoNegativeNumber(ret)

\* C11: formatResetTime returns 'Resets now' whenever ts <= now, for both
\* values of dateOnly; otherwise, when dateOnly is not set, it formats a
\* countdown computed from floor((ts - now) / 1000) >= 0 seconds, and when
\* dateOnly is set it renders the date of the instant and no countdown; it
\* never renders a negative duration.
C11_ResetTime ==
    FormatResetTimeCall =>
        LET left == call.resetTimestamp - call.clock
        IN  /\ left <= 0 => ret = ResetsNow
            /\ (left > 0 /\ ~call.dateOnly) =>
                    IsCountdownRendering(ret, left \div 1000)
            /\ (left > 0 /\ call.dateOnly) => IsDateRendering(ret)
            /\ NoNegativeNumber(ret)

\* The instant equals the clock read inside the function, after the clock
\* advanced
C11_Witness ==
    /\ FormatResetTimeCall
    /\ call.resetTimestamp = StartTime + 1
    /\ call.clock = StartTime + 1
    /\ call.dateOnly
    /\ ret = ResetsNow

FormatDurationCall == call.fn = "formatDuration"

\* C12: for every integer s >= 0, with d = floor(s/86400),
\* h = floor((s mod 86400)/3600) and m = floor((s mod 3600)/60), formatDuration
\* emits the days part iff d > 0, the hours part iff h > 0 and the minutes
\* part iff m > 0 or no other part was emitted, in that order; the result is
\* never empty, has no negative unit, 0 <= s - (86400d + 3600h + 60m) < 60,
\* and formatDuration(0) is exactly the zero-minutes component.
C12_Duration ==
    FormatDurationCall =>
        LET s == call.seconds
            d == s \div 86400
            h == (s % 86400) \div 3600
            m == (s % 3600) \div 60
            parts == DurationParts(ret)
            expected ==
                (IF d > 0 THEN << <<DayUnit, d>> >> ELSE <<>>)
                \o (IF h > 0 THEN << <<HourUnit, h>> >> ELSE <<>>)
                \o (IF m > 0 \/ (d = 0 /\ h = 0) THEN << <<MinuteUnit, m>> >> ELSE <<>>)
        IN  /\ parts = expected
            /\ ret # <<>>
            /\ WellFormedParts(parts)
            /\ NoNegativeNumber(ret)
            /\ 0 <= s - (86400 * d + 3600 * h + 60 * m)
            /\ s - (86400 * d + 3600 * h + 60 * m) < 60
            /\ s = 0 => ret = <<"0", MinuteUnit>>

\* One day and one hour exactly: the minutes part is left out
C12_Witness ==
    /\ FormatDurationCall
    /\ call.seconds = 90000
    /\ currentLang = "en"
    /\ ret = <<"1", "d", " ", "1", "h">>

-----------------------------------------------------------------------------
(* Properties of the adapters and of the aggregator, checked under Spec *)

\* The adapter of the provider was called and returned null
Null(p) == task[p].st = "settled" /\ task[p].result = <<>>

\* The error messages of the adapters that failed, in the order of the queries
RECURSIVE FailureErrorsFrom(_)
FailureErrorsFrom(i) ==
    IF i > Len(queries) THEN <<>>
    ELSE (IF Failed(queries[i]) THEN << task[queries[i]].result[1].error >> ELSE <<>>)
         \o FailureErrorsFrom(i + 1)

EndsWith(text, suffix) ==
    /\ Len(suffix) <= Len(text)
    /\ SubSeq(text, Len(text) - Len(suffix) + 1, Len(text)) = suffix

\* The error section of the returned string holds the messages of the
\* adapters that failed and nothing else
ErrorSectionExact ==
    LET errors == FailureErrorsFrom(1)
    IN  IF errors = <<>> THEN ~IsInfix(<< t.queryFailed[1] >>, output)
        ELSE EndsWith(output, t.queryFailed \o Join(errors, <<"\n">>))

OpenAINotConfigured(c) == c = <<>> \/ c[1].type # "oauth" \/ c[1].access = <<>>
AnthropicNotConfigured(c) == c = <<>> \/ c[1].access = <<>>

ReturnsNull(task0) == task0.st = "settled" /\ task0.result = <<>>

\* C13: queryOpenAIUsage returns null when the record is absent, its type is
\* not 'oauth' or it has no access token, and queryAnthropicUsage returns null
\* when the record has no access token; a provider whose adapter returned null
\* contributes nothing to the returned string: no row, no legacy block and no
\* error line.
C13_NotConfigured ==
    /\ \A c \in OpenAICreds \cup OpenAIEdgeCreds :
            OpenAINotConfigured(c) => ReturnsNull(queryOpenAIUsageStart(c, now))
    /\ \A c \in AnthropicCreds \cup AnthropicEdgeCreds :
            AnthropicNotConfigured(c) => ReturnsNull(queryAnthropicUsageStart(c, now))
    /\ authData # <<>> =>
        /\ (authData[1].openai # <<>> /\ OpenAINotConfigured(authData[1].openai))
                => Null("openai")
        /\ (authData[1].anthropic # <<>> /\ AnthropicNotConfigured(authData[1].anthropic))
                => Null("anthropic")
    /\ Aggregated =>
        \A p \in {"openai", "anthropic"} : Null(p) =>
            /\ \A cells \in TableRowsOf(output) : cells[1] # ProviderName(p)
            /\ ~IsInfix(titleOf(p), output)
            /\ ErrorSectionExact

\* Both adapters returned null beside a MiniMax success and a Copilot failure
C13_Witness ==
    /\ Aggregated
    /\ Null("openai")
    /\ authData[1].openai[1].type = "api"
    /\ Null("anthropic")
    /\ Succeeded("minimax")
    /\ Failed("copilot")
    /\ IsInfix(t.tableTitle, output)
    /\ EndsWith(output, t.queryFailed \o t.copilotQuotaUnavailable)

\* How often an event occurs among the events of the invocation
RECURSIVE CountFrom(_, _)
CountFrom(e, i) ==
    IF i > Len(events) THEN 0
    ELSE (IF events[i] = e THEN 1 ELSE 0) + CountFrom(e, i + 1)

Count(e) == CountFrom(e, 1)

\* The position of the first occurrence of an event, 0 when it does not occur
FirstIndex(e) ==
    IF Count(e) = 0 THEN 0
    ELSE CHOOSE i \in 1..Len(events) :
            events[i] = e /\ \A k \in 1..(i - 1) : events[k] # e

\* execute has read the credential store and started its queries
Started == authData # <<>> /\ pc \in {"querying", "done", "rejected"}

\* The OpenAI record is an OAuth record with an access token
OpenAIUsable ==
    /\ Started
    /\ authData[1].openai # <<>>
    /\ authData[1].openai[1].type = "oauth"
    /\ authData[1].openai[1].access # <<>>

\* An expiry that lies before, or after, every instant the clock shows in
\* the run: the clock runs from StartTime to StartTime + MaxDrift
SurelyPast(expires) == expires # <<>> /\ expires[1] < StartTime
SurelyNotPast(expires) == expires = <<>> \/ expires[1] > StartTime + MaxDrift

\* C14 as stated: for every OpenAI oauth credential with an access token and
\* every value of expires, 0 included: if expires < now, queryOpenAIUsage
\* returns the expired-token failure and the usage endpoint is never called
\* in that invocation; if expires >= now or expires is absent, the usage
\* endpoint is called.
C14_OpenAIExpiry_AsStated ==
    OpenAIUsable =>
        LET expires == authData[1].openai[1].expires
            expiredFailure ==
                /\ Failed("openai")
                /\ task["openai"].result[1].error = t.tokenExpired
                /\ Count(OpenAIUsageRequest) = 0
                /\ upstream["openai"] = "none"
            called == Count(OpenAIUsageRequest) = 1
        IN  /\ SurelyPast(expires) => expiredFailure
            /\ SurelyNotPast(expires) => called
            /\ expiredFailure \/ called

\* C15: no invocation of the tool writes to the credential file or to the
\* credential records it read; after an Anthropic token refresh returned a
\* new access token, the stored access, refresh and expires values are
\* unchanged and the new token is held by that invocation alone.
C15_StoreReadOnly ==
    /\ [][authFile' = authFile]_vars
    /\ [](authData # <<>> => authData = << authFile.data >>)

C15_Witness ==
    /\ pc = "done"
    /\ upstream["token"] = "ok"
    /\ task["anthropic"].secret = NewAccessToken
    /\ authData[1].anthropic[1].access = AccessToken
    /\ authData[1].anthropic[1].refresh = RefreshToken
    /\ authData[1].anthropic[1].expires = <<StartTime - 1>>
    /\ authFile.data.anthropic = authData[1].anthropic

AuthReadFailed == authFile.kind \in {"unreadable", "malformed"}

\* The auth error of the language, for the path and the cause
AuthErrorText(cause) ==
    IF currentLang = "en"
    THEN <<"(x) Failed to read auth file: ", "/home/user",
           "/.local/share/opencode/auth.json", "\n", "Error: ">> \o cause
    ELSE <<"(x) Khong doc duoc file auth: ", "/home/user",
           "/.local/share/opencode/auth.json", "\n", "Loi: ">> \o cause

\* C16: when reading or JSON-parsing the credential file fails, the tool
\* returns at once the localized auth-error string naming the path and the
\* cause: no adapter is invoked, no request or subprocess is started, and the
\* returned string has no table, no legacy block and no per-provider error.
C16_AuthError ==
    AuthReadFailed =>
        /\ pc \in {"idle", "reading", "done"}
        /\ events = <<>>
        /\ queries = <<>>
        /\ \A p \in Providers : task[p] = NoTask
        /\ upstream = NoUpstream
        /\ pc = "done" =>
            /\ output = AuthErrorText(IF authFile.kind = "unreadable"
                                      THEN <<"ENOENT: no such file or directory">>
                                      ELSE <<"Unexpected token < in JSON at position 0">>)
            /\ ~IsInfix(t.tableTitle, output)
            /\ TableLines(output) = {}
            /\ \A p \in Providers : ~IsInfix(titleOf(p), output)
            /\ ~IsInfix(<< t.queryFailed[1] >>, output)

C16_Witness ==
    /\ pc = "done"
    /\ authFile.kind = "malformed"
    /\ currentLang = "vi"
    /\ IsInfix(authPath, output)
    /\ IsInfix(JsonSyntaxError, output)
    /\ events = <<>>

\* C17 as stated: when the usage endpoint answers with a non-2xx status,
\* queryAnthropicUsage returns a success with zero rows and the 'no quota
\* data' legacy text; only when the usage call fails at transport level
\* (timeout, network error) does it return the 'failed to fetch usage data'
\* failure.
C17_UsageAsymmetry_AsStated ==
    /\ upstream["anthropic"] = "status" =>
        /\ Succeeded("anthropic")
        /\ task["anthropic"].result[1].tableRows = <<>>
        /\ IsInfix(t.noQuotaData, task["anthropic"].result[1].output)
    /\ upstream["anthropic"] = "timeout" =>
        /\ Failed("anthropic")
        /\ task["anthropic"].result[1].error = <<"Anthropic: Failed to fetch usage data">>
    /\ (Failed("anthropic") /\ upstream["anthropic"] # "none") =>
            upstream["anthropic"] = "timeout"

\* The Anthropic record has an access token
AnthropicUsable ==
    /\ Started
    /\ authData[1].anthropic # <<>>
    /\ authData[1].anthropic[1].access # <<>>

\* C18 as stated: in one invocation the token-refresh endpoint is called iff
\* a refresh token is present and the stored expires instant has passed
\* (expires < now, for every expires value, 0 included), and then exactly once
\* and before the usage call; the usage endpoint is called exactly once
\* afterwards whether the refresh succeeded or failed, with the new token on
\* success and the original access token on failure.
C18_RefreshProtocol_AsStated ==
    AnthropicUsable =>
        LET cred == authData[1].anthropic[1]
            refreshed == Count(ClaudeTokenRequest) = 1
            notRefreshed == Count(ClaudeTokenRequest) = 0
        IN  /\ (cred.refresh # <<>> /\ SurelyPast(cred.expires)) => refreshed
            /\ (cred.refresh = <<>> \/ SurelyNotPast(cred.expires)) => notRefreshed
            /\ refreshed \/ notRefreshed
            /\ Count(ClaudeUsageRequest) <= 1
            /\ refreshed =>
                /\ upstream["token"] = "none" => Count(ClaudeUsageRequest) = 0
                /\ upstream["token"] # "none" =>
                    /\ Count(ClaudeUsageRequest) = 1
                    /\ FirstIndex(ClaudeTokenRequest) < FirstIndex(ClaudeUsageRequest)
                /\ upstream["token"] = "ok" => task["anthropic"].secret = NewAccessToken
                /\ upstream["token"] = "status" => task["anthropic"].secret = cred.access
            /\ notRefreshed =>
                /\ Count(ClaudeUsageRequest) = 1
                /\ task["anthropic"].secret = cred.access

\* The credential key of the provider is in the store
KeyPresent(p) ==
    CASE p = "openai" -> authData[1].openai # <<>>
      [] p = "minimax" -> authData[1].minimaxCodingPlan # <<>> \/ authData[1].minimax # <<>>
      [] p = "copilot" -> authData[1].githubCopilot # <<>>
      [] p = "anthropic" -> authData[1].anthropic # <<>>

Requests == {OpenAIUsageRequest, MiniMaxUsageRequest, ClaudeTokenRequest, ClaudeUsageRequest}

\* C19: in one invocation each adapter whose credential key is present is
\* started exactly once, the others not at all, and no request is repeated;
\* all applicable adapters are started before the aggregator waits on any of
\* them; collection and rendering begin only after every started adapter has
\* settled, whichever failed or succeeded first.
C19_FanOutFanIn ==
    Started =>
        /\ \A p \in Providers : Count(CallEvent(p)) = IF KeyPresent(p) THEN 1 ELSE 0
        /\ \A r \in Requests : Count(r) <= 1
        /\ Count(AwaitAll) = 1
        /\ \A p \in Providers :
                KeyPresent(p) => FirstIndex(CallEvent(p)) < FirstIndex(AwaitAll)
        /\ pc = "done" => \A p \in Providers : KeyPresent(p) => task[p].st = "settled"

\* All four adapters were started; the OpenAI adapter had failed at once and
\* the others settled later, a failure and two successes
C19_Witness ==
    /\ pc = "done"
    /\ authData # <<>>
    /\ \A p \in Providers : KeyPresent(p) /\ Count(CallEvent(p)) = 1
    /\ OpenAIJustExpired
    /\ Failed("openai")
    /\ Failed("minimax")
    /\ Succeeded("copilot")
    /\ Succeeded("anthropic")
    /\ Count(ClaudeTokenRequest) = 1
    /\ Count(ClaudeUsageRequest) = 1

\* C20: every adapter call (OpenAI, MiniMax, Anthropic) settles to a
\* QueryResult or null and never rejects, for every credential record and
\* every upstream behaviour (timeout, network error, non-2xx status,
\* unparsable JSON, JSON of unexpected shape, subprocess failure); a success
\* carries legacy text and no error, a failure an error string and no rows.
C20_NeverRejects ==
    \A p \in {"openai", "minimax", "anthropic"} :
        /\ task[p].st # "rejected"
        /\ upstream[p] # "none" => task[p].st = "settled" /\ task[p].result # <<>>
        /\ (task[p].st = "settled" /\ task[p].result # <<>>) =>
            LET r == task[p].result[1]
            IN  /\ ~IsRejection(r)
                /\ r.success => r.output # <<>> /\ r.error = <<>>
                /\ ~r.success => r.error # <<>> /\ r.tableRows = <<>>
        /\ (pc = "done" /\ authData # <<>> /\ KeyPresent(p)) => task[p].st = "settled"

\* A body without base_resp from MiniMax and a network error for OpenAI, both
\* turned into failures, beside an Anthropic usage body without error
C20_Witness ==
    /\ pc = "done"
    /\ upstream["minimax"] = "shape"
    /\ Failed("minimax")
    /\ task["minimax"].result[1].error = NoBaseRespError
    /\ upstream["openai"] = "network"
    /\ Failed("openai")
    /\ upstream["anthropic"] = "ok"
    /\ Succeeded("anthropic")

\* What the returned string holds before its error section, and the section
ErrorSection == t.queryFailed \o Join(FailureErrorsFrom(1), <<"\n">>)

BeforeErrorSection == SubSeq(output, 1, Len(output) - Len(ErrorSection))

\* A settled adapter succeeded with rows or with legacy text
PrimaryOutput ==
    \E p \in Providers :
        /\ Succeeded(p)
        /\ task[p].result[1].tableRows # <<>> \/ task[p].result[1].output # <<>>

\* C21: the error string of every settled failure is in the returned string,
\* in a section after the table or the legacy blocks (a blank line between
\* them when there is primary output) that starts with the localized 'query
\* failed' header and joins the errors with line feeds, none of them inside
\* the table or the legacy blocks; when no adapter succeeded the returned
\* string is the header followed by the error lines and nothing else.
C21_ErrorSection ==
    (Aggregated /\ \E p \in Providers : Failed(p)) =>
        /\ EndsWith(output, ErrorSection)
        /\ \A p \in Providers : Failed(p) =>
            /\ IsInfix(task[p].result[1].error, ErrorSection)
            /\ ~IsInfix(task[p].result[1].error, BeforeErrorSection)
        /\ ~IsInfix(<< t.queryFailed[1] >>, BeforeErrorSection)
        /\ PrimaryOutput =>
            /\ Len(BeforeErrorSection) > 2
            /\ EndsWith(BeforeErrorSection, <<"\n", "\n">>)
        /\ ~PrimaryOutput => output = ErrorSection
        /\ (\A p \in Providers : ~Succeeded(p)) => output = ErrorSection

\* Two failures below the table of two successes
C21_Witness ==
    /\ Aggregated
    /\ OpenAIJustExpired
    /\ Failed("minimax")
    /\ upstream["minimax"] = "status"
    /\ Succeeded("copilot")
    /\ Succeeded("anthropic")
    /\ IsInfix(t.tableTitle, BeforeErrorSection)
    /\ EndsWith(output, t.queryFailed \o t.tokenExpired \o <<"\n">>
                        \o task["minimax"].result[1].error)

-----------------------------------------------------------------------------
(* Properties of fetchWithTimeout, checked under SpecFn *)

FetchSettled == call.fn = "fetchWithTimeout" /\ call.settled

\* The three ways fetchWithTimeout settles
AnsweredInTime ==
    /\ call.request = "answered"
    /\ call.timer = "cleared"
    /\ ret.kind = "return"
TimedOut ==
    /\ call.request = "aborted"
    /\ call.timer = "fired"
    /\ ret.kind = "throw"
    /\ ret.error.message =
         (IF currentLang = "en" THEN <<"Request timeout (">> ELSE <<"Het thoi gian cho (">>)
         \o NatText((2 * call.timeoutMs + 1000) \div 2000)
         \o (IF currentLang = "en" THEN <<"s)">> ELSE <<" giay)">>)
FailedOtherwise ==
    /\ call.request = "failed"
    /\ call.timer = "cleared"
    /\ ret.kind = "throw"
    /\ ret.error = call.thrown

\* C22: fetchWithTimeout settles in exactly one of three ways, the timer
\* disarmed in each before the caller resumes: the request answers before the
\* timer fires and the response is returned; the timer fires first, the
\* request is aborted and a timeout error carrying round(timeoutMs/1000)
\* seconds is raised; the request fails for another reason and that error is
\* raised again unchanged.  The timer never fires after fetchWithTimeout has
\* settled.
C22_FetchWithTimeout ==
    /\ [](FetchSettled =>
            /\ call.timer # "armed"
            /\ AnsweredInTime \/ TimedOut \/ FailedOtherwise)
    /\ [][FetchSettled => (call' = call /\ ret' = ret)]_vars

\* The default timeout of ten seconds ran out
C22_Witness ==
    /\ FetchSettled
    /\ TimedOut
    /\ call.timeoutMs = REQUEST_TIMEOUT_MS
    /\ currentLang = "en"
    /\ ret.error.message = <<"Request timeout (", "1", "0", "s)">>

-----------------------------------------------------------------------------
(* Properties of the MiniMax alias pair, checked under Spec *)

CodingPlanRecord == authData[1].minimaxCodingPlan
AliasRecord == authData[1].minimax

\* What the MiniMax adapter did with the record it was given
MiniMaxUsedKey(key) ==
    /\ task["minimax"].secret = key
    /\ Count(MiniMaxUsageRequest) = 1
MiniMaxNeedsLogin ==
    /\ task["minimax"].st = "settled"
    /\ task["minimax"].result = << Failure(t.minimaxNeedLogin) >>
    /\ Count(MiniMaxUsageRequest) = 0

MiniMaxGiven(record) ==
    IF record[1].key = <<>> THEN MiniMaxNeedsLogin ELSE MiniMaxUsedKey(record[1].key)

\* C23: the MiniMax adapter is invoked iff one of the keys
\* minimax-coding-plan, minimax is present, and then once; it is given the
\* record under minimax-coding-plan when there is one, else the record under
\* minimax; a record without API key gives the 'needs login' failure, not
\* null.
C23_MiniMaxAlias ==
    Started =>
        /\ Count(CallEvent("minimax")) =
             (IF CodingPlanRecord # <<>> \/ AliasRecord # <<>> THEN 1 ELSE 0)
        /\ (CodingPlanRecord = <<>> /\ AliasRecord = <<>>) => task["minimax"] = NoTask
        /\ CodingPlanRecord # <<>> => MiniMaxGiven(CodingPlanRecord)
        /\ (CodingPlanRecord = <<>> /\ AliasRecord # <<>>) => MiniMaxGiven(AliasRecord)

\* Both keys hold a usable record and the one under minimax-coding-plan was
\* used, and the answer was rendered
C23_Witness ==
    /\ Aggregated
    /\ CodingPlanRecord # <<>> /\ AliasRecord # <<>>
    /\ CodingPlanRecord[1].key = LongKey /\ AliasRecord[1].key = ShortKey
    /\ MiniMaxUsedKey(LongKey)
    /\ Succeeded("minimax")

-----------------------------------------------------------------------------
(* Properties of the shapes of a MiniMax response, checked under SpecFn *)

FirstEntry == call.usage.model_remains[1]
PlanRecord == call.usage.data[1]

\* The line of the legacy text that gives the counts
UsedLine(used, total) ==
    t.used \o <<":", " ">> \o IntText(used) \o <<" / ">> \o IntText(total)
    \o <<" prompts">>

\* The row shows the percentages of used out of total prompts, and its reset
\* columns are filled exactly when the reset time was ahead of the clock of
\* the row's own test
RowShows(row, used, total, resetTime) ==
    /\ \E a \in (0 - MaxShownPercent)..MaxShownPercent :
        /\ IsRounded(a, IF total > 0 THEN <<100 * total - 100 * used, total>> ELSE <<100, 1>>)
        /\ row.used = IntText(a) \o <<"%">>
    /\ \E b \in (0 - MaxShownPercent)..MaxShownPercent :
        /\ IsRounded(b, IF total > 0 THEN <<100 * used, total>> ELSE <<0, 1>>)
        /\ row.remaining = IntText(b) \o <<"%">>
    /\ (row.resetIn # <<"-">>) <=> (resetTime # 0 /\ resetTime > call.reads[1])
    /\ (row.resetDate # <<"-">>) <=> (resetTime # 0 /\ resetTime > call.reads[1])

\* The legacy text gives these counts and no others, and a reset line exactly
\* when the reset time was ahead of the clock of the text's own test
TextShows(text, used, total, resetTime) ==
    /\ IsInfix(UsedLine(used, total), text)
    /\ Cardinality({i \in 1..Len(text) : text[i] = " prompts"}) = 1
    /\ ~IsInfix(t.noQuotaData, text)
    /\ (\E i \in 1..Len(text) : text[i] \in {"Resets in:", "Resets now"})
         <=> (resetTime # 0 /\ resetTime > call.reads[4])

AllDashes(row) ==
    /\ row.used = <<"-">> /\ row.remaining = <<"-">>
    /\ row.resetIn = <<"-">> /\ row.resetDate = <<"-">>

\* C24: a successful MiniMax response gives exactly one row; when
\* model_remains has an entry, its first entry alone gives the percentages
\* and the reset time of the legacy text and of the row; otherwise the
\* aggregate data record gives them; when neither is present the legacy text
\* holds the 'no quota data' placeholder and the row's used, remaining,
\* resetIn and resetDate are all '-'.
C24_MiniMaxShapes ==
    MiniMaxCall =>
        /\ ret.success
        /\ Len(ret.tableRows) = 1
        /\ call.usage.model_remains # <<>> =>
            /\ RowShows(ret.tableRows[1], FirstEntry.current_interval_usage_count,
                        FirstEntry.current_interval_total_count, FirstEntry.end_time)
            /\ TextShows(ret.output, FirstEntry.current_interval_usage_count,
                         FirstEntry.current_interval_total_count, FirstEntry.end_time)
            /\ IsInfix(FirstEntry.model_name, ret.output)
        /\ (call.usage.model_remains = <<>> /\ call.usage.data # <<>>) =>
            /\ ~AllDashes(ret.tableRows[1])
            /\ ret.tableRows[1].plan = planLabelOf(call.usage.data)
            /\ PlanRecord.total_prompts # <<>> =>
                RowShows(ret.tableRows[1], Coalesce(PlanRecord.used_prompts, 0),
                         PlanRecord.total_prompts[1], PlanRecord.next_reset_time)
            /\ (PlanRecord.total_prompts # <<>> /\ PlanRecord.used_prompts # <<>>) =>
                TextShows(ret.output, PlanRecord.used_prompts[1],
                          PlanRecord.total_prompts[1], PlanRecord.next_reset_time)
        /\ (call.usage.model_remains = <<>> /\ call.usage.data = <<>>) =>
            /\ IsInfix(t.noQuotaData, ret.output)
            /\ AllDashes(ret.tableRows[1])

\* Two entries and the aggregate record were there, and the first entry was
\* shown in the row and in the text
C24_Witness ==
    /\ MiniMaxCall
    /\ Len(call.usage.model_remains) = 2
    /\ call.usage.data # <<>>
    /\ FirstEntry.current_interval_total_count = 200
    /\ FirstEntry.end_time > call.reads[4]
    /\ ret.tableRows[1].remaining = <<"1", "%">>
    /\ IsInfix(UsedLine(1, 200), ret.output)

\* Neither shape was there
C24_WitnessNeither ==
    /\ MiniMaxCall
    /\ call.usage.model_remains = <<>> /\ call.usage.data = <<>>
    /\ AllDashes(ret.tableRows[1])

-----------------------------------------------------------------------------
(* Properties of formatWindowName, checked under SpecFn *)

WindowNameCall == call.fn = "formatWindowName"

\* round(s / unit) of a window length
RoundedUnits(s, unit) == (2 * s + unit) \div (2 * unit)

EnglishWindowName(s) ==
    IF RoundedUnits(s, 86400) >= 1
    THEN NatText(RoundedUnits(s, 86400)) \o <<"-day limit">>
    ELSE NatText(RoundedUnits(s, 3600)) \o <<"-hour limit">>

VietnameseWindowName(s) ==
    IF RoundedUnits(s, 86400) >= 1
    THEN <<"Gioi han ">> \o NatText(RoundedUnits(s, 86400)) \o <<" ngay">>
    ELSE <<"Gioi han ">> \o NatText(RoundedUnits(s, 3600)) \o <<" gio">>

\* C25 as stated: the label of a window of s seconds is 'N-day limit' with
\* N = round(s/86400) when that N >= 1, and otherwise 'N-hour limit' with
\* N = round(s/3600); 18000 s gives '5-hour limit', seven days '7-day limit'.
C25_WindowName_AsStated ==
    WindowNameCall =>
        /\ ret = EnglishWindowName(call.seconds)
        /\ call.seconds = 18000 => ret = <<"5", "-hour limit">>
        /\ call.seconds = 604800 => ret = <<"7", "-day limit">>

\* C25 (amended): the rule chooses days when round(s/86400) >= 1 and rounded
\* hours otherwise, and the label is the one of the current language:
\* 'N-day limit' and 'N-hour limit' when it is "en", 'Gioi han N ngay' and
\* 'Gioi han N gio' (Vietnamese) when it is "vi".
C25_WindowName ==
    WindowNameCall =>
        /\ currentLang = "en" =>
            /\ ret = EnglishWindowName(call.seconds)
            /\ call.seconds = 18000 => ret = <<"5", "-hour limit">>
            /\ call.seconds = 604800 => ret = <<"7", "-day limit">>
        /\ currentLang = "vi" =>
            /\ ret = VietnameseWindowName(call.seconds)
            /\ call.seconds = 18000 => ret = <<"Gioi han ", "5", " gio">>
            /\ call.seconds = 604800 => ret = <<"Gioi han ", "7", " ngay">>

\* Half a day is named a day, in Vietnamese
C25_Witness ==
    /\ WindowNameCall
    /\ call.seconds = 43200
    /\ currentLang = "vi"
    /\ ret = <<"Gioi han ", "1", " ngay">>

-----------------------------------------------------------------------------
(* Representation of the providers that answered, checked under Spec *)

\* The success of provider p carries a legacy text
AnsweredWithText(p) == Succeeded(p) /\ task[p].result[1].output # <<>>

\* One of the provider's rows is in the returned string
RowShown(p) ==
    \E i \in 1..Len(task[p].result[1].tableRows) :
        LET row == task[p].result[1].tableRows[i]
        IN  /\ IsInfix(row.provider, output)
            /\ IsInfix(row.plan, output)
            /\ IsInfix(row.used, output)

\* The provider's legacy block is in the returned string under its title
BlockShown(p) ==
    IsInfix(titleOf(p) \o <<"\n", "\n">> \o task[p].result[1].output, output)

\* C26 as stated: each adapter that returns a success with legacy text
\* contributes to the returned string at least one table row or its titled
\* legacy block, also when it produced no row while another provider
\* produced rows.
C26_Represented_AsStated ==
    Aggregated =>
        \A p \in Providers : AnsweredWithText(p) => (RowShown(p) \/ BlockShown(p))

\* What holds instead: a provider that answered with text is shown unless it
\* has no row and another provider has one
C26_RepresentedUnlessRowless ==
    Aggregated =>
        \A p \in Providers :
            (AnsweredWithText(p) /\ ~(RowShown(p) \/ BlockShown(p))) =>
                /\ task[p].result[1].tableRows = <<>>
                /\ \E q \in Providers \ {p} :
                    Succeeded(q) /\ task[q].result[1].tableRows # <<>>

-----------------------------------------------------------------------------
(* The reset columns of MiniMax and Anthropic rows, checked under SpecFn *)

RowsReturned == (MiniMaxCall \/ AnthropicCall) /\ ret.success

\* Both columns are '-', or both are filled and neither holds the sentinel
ResetColumnsSound(row) ==
    \/ row.resetIn = <<"-">> /\ row.resetDate = <<"-">>
    \/ /\ row.resetIn \notin { <<"-">>, ResetsNow }
       /\ row.resetDate \notin { <<"-">>, ResetsNow }
       /\ IsDateRendering(row.resetDate)

\* C27 as stated: in every row of the MiniMax and Anthropic adapters resetIn
\* and resetDate are both '-' or a countdown and a date of a strictly future
\* instant, never 'Resets now', also when the clock advances between the
\* adapter's own test and the reads inside formatResetTime.
C27_ResetColumns_AsStated ==
    RowsReturned =>
        \A i \in 1..Len(ret.tableRows) : ResetColumnsSound(ret.tableRows[i])

\* What holds instead: the columns are sound whenever the clock reads of the
\* call are all the same
C27_ResetColumnsSteadyClock ==
    (RowsReturned /\ \A i \in 1..Len(call.reads) : call.reads[i] = call.reads[1]) =>
        \A i \in 1..Len(ret.tableRows) : ResetColumnsSound(ret.tableRows[i])

-----------------------------------------------------------------------------
(* Termination of an invocation, checked under SpecLive *)

Stalled(p) == task[p].st = "stalled"

\* C28 as stated: once the credential file has been read, every invocation
\* eventually returns a string, every remote call completing or being cut
\* off by its timeout, also when a server sends the response headers in time
\* and then never delivers the body.
C28_Termination_AsStated == (pc = "querying") ~> (pc = "done")

\* What holds instead: while no body is stalled, every adapter that was
\* started has settled or awaits a request that its timeout bounds, and the
\* others were never started
C28_BoundedUnlessStalled ==
    (pc = "querying" /\ \A p \in FetchingProviders : ~Stalled(p)) =>
        \A p \in Providers :
            IF \E i \in 1..Len(queries) : queries[i] = p
            THEN task[p].st \in {"pending", "refreshing", "settled"}
            ELSE task[p] = NoTask

\* An invocation with a stalled body never returns
C28_StalledForever ==
    [][(\E p \in FetchingProviders : Stalled(p)) => (pc' = "querying" /\ output' = <<>>)]_vars

-----------------------------------------------------------------------------
(* The order of the providers in the returned string, checked under Spec *)

ProviderOrder == <<"openai", "minimax", "copilot", "anthropic">>

\* The rows, the legacy blocks and the errors of the results, provider by
\* provider in the fixed order
RECURSIVE RowsInOrder(_)
RowsInOrder(i) ==
    IF i > Len(ProviderOrder) THEN <<>>
    ELSE (IF Succeeded(ProviderOrder[i])
          THEN task[ProviderOrder[i]].result[1].tableRows ELSE <<>>)
         \o RowsInOrder(i + 1)

RECURSIVE BlocksInOrder(_)
BlocksInOrder(i) ==
    IF i > Len(ProviderOrder) THEN <<>>
    ELSE LET rest == BlocksInOrder(i + 1)
             p == ProviderOrder[i]
         IN  IF AnsweredWithText(p)
             THEN << titleOf(p), <<>>, task[p].result[1].output >>
                  \o (IF rest # <<>> THEN << <<>> >> ELSE <<>>) \o rest
             ELSE rest

RECURSIVE ErrorsInOrder(_)
ErrorsInOrder(i) ==
    IF i > Len(ProviderOrder) THEN <<>>
    ELSE (IF Failed(ProviderOrder[i])
          THEN << task[ProviderOrder[i]].result[1].error >> ELSE <<>>)
         \o ErrorsInOrder(i + 1)

\* The positions of an atom in the returned string
Positions(atom) == {k \in 1..Len(output) : output[k] = atom}

Before(a, b) == \A i \in Positions(a), j \in Positions(b) : i < j

HasRows(p) == Succeeded(p) /\ task[p].result[1].tableRows # <<>>

\* C29: the returned string does not depend on the order in which the
\* adapter calls complete: it is determined by the results alone, and rows,
\* legacy blocks and error lines appear in the fixed provider order OpenAI,
\* MiniMax, GitHub Copilot, Anthropic.
C29_OrderIndependent ==
    Aggregated =>
        /\ output = aggregateOutput([results |-> BlocksInOrder(1),
                                     errors |-> ErrorsInOrder(1),
                                     tableRows |-> RowsInOrder(1)])
        /\ \A i, j \in 1..Len(ProviderOrder) :
            LET p == ProviderOrder[i]
                q == ProviderOrder[j]
            IN  i < j =>
                /\ (HasRows(p) /\ HasRows(q)) =>
                    /\ Positions(ProviderName(p)[1]) # {}
                    /\ Positions(ProviderName(q)[1]) # {}
                    /\ Before(ProviderName(p)[1], ProviderName(q)[1])
                /\ (RowsInOrder(1) = <<>> /\ AnsweredWithText(p) /\ AnsweredWithText(q)) =>
                    /\ Positions(titleOf(p)[1]) # {}
                    /\ Positions(titleOf(q)[1]) # {}
                    /\ Before(titleOf(p)[1], titleOf(q)[1])
                /\ (Failed(p) /\ Failed(q)
                      /\ task[p].result[1].error # task[q].result[1].error) =>
                    \E k \in 1..(Len(output) - Len(task[q].result[1].error) + 1) :
                        /\ SubSeq(output, k, k + Len(task[q].result[1].error) - 1)
                             = task[q].result[1].error
                        /\ IsInfix(task[p].result[1].error, SubSeq(output, 1, k - 1))

\* Three providers gave rows and the fourth failed
C29_Witness ==
    /\ Aggregated
    /\ HasRows("openai") /\ HasRows("minimax") /\ HasRows("anthropic")
    /\ Failed("copilot")
    /\ Before("OpenAI", "MiniMax") /\ Before("MiniMax", "Anthropic")
    /\ Positions("Anthropic") # {}

-----------------------------------------------------------------------------
(* The two percentages of a MiniMax row, checked under SpecFn *)

\* A per-model entry with a positive total and a usage within it
EntryWithinTotal ==
    /\ MiniMaxCall
    /\ call.usage.model_remains # <<>>
    /\ FirstEntry.current_interval_total_count > 0
    /\ FirstEntry.current_interval_usage_count >= 0
    /\ FirstEntry.current_interval_usage_count <= FirstEntry.current_interval_total_count

\* Twice the numbers shown in the used and remaining fields of the row
UsedShown2 == CellHalves(ret.tableRows[1].used)
RemainingShown2 == CellHalves(ret.tableRows[1].remaining)

\* 100 * U / T lies halfway between two integers
UsageHalfway ==
    (200 * FirstEntry.current_interval_usage_count)
        % (2 * FirstEntry.current_interval_total_count)
      = FirstEntry.current_interval_total_count

\* C30 as stated: for a per-model entry with T > 0 and 0 <= U <= T the two
\* percentages of the row add up to 100, round(100 - 100*U/T) +
\* round(100*U/T) = 100, and both lie in [0, 100].
C30_RowSum_AsStated ==
    EntryWithinTotal =>
        /\ UsedShown2 + RemainingShown2 = 200
        /\ UsedShown2 \in 0..200
        /\ RemainingShown2 \in 0..200

\* C30 (amended): both percentages lie in [0, 100] and their sum is 100,
\* except that it may be 101 when 100*U/T lies halfway between two integers,
\* both being rounded up then: T = 8 and U = 1 give 88% and 13%.
C30_RowSum ==
    EntryWithinTotal =>
        /\ UsedShown2 + RemainingShown2 \in {200, 202}
        /\ UsedShown2 + RemainingShown2 = 202 => UsageHalfway
        /\ UsedShown2 \in 0..200
        /\ RemainingShown2 \in 0..200
        /\ (FirstEntry.current_interval_total_count = 8
              /\ FirstEntry.current_interval_usage_count = 1) =>
            /\ ret.tableRows[1].used = <<"8", "8", "%">>
            /\ ret.tableRows[1].remaining = <<"1", "3", "%">>

\* One prompt of eight was used
C30_Witness ==
    /\ EntryWithinTotal
    /\ FirstEntry.current_interval_total_count = 8
    /\ FirstEntry.current_interval_usage_count = 1
    /\ UsedShown2 + RemainingShown2 = 202

====
